---- MODULE Spec2Model ----
(***************************************************************************)
(* Vehicle dynamics of senlima-sun/car: the per-frame step of the Car     *)
(* component (useFrame) with the stores it reads and writes.              *)
(*                                                                         *)
(* Numbers.  The source computes in IEEE doubles; the model computes in   *)
(* fixed point on integers, every product rounded toward zero:            *)
(*   speed            mm/s          force, load      mN                   *)
(*   time             ms            acceleration     mm/s^2               *)
(*   slip angle       1/1000 deg    steer angle      1/1000 rad           *)
(*   angular velocity 1/1000 rad/s  G                1/1000 g             *)
(*   coefficients, multipliers, interpolation factors, unit vectors and   *)
(*   quaternion components          1/10000  (written "E4")               *)
(* A non-finite double (NaN, +-Infinity) is the single value NonFinite.   *)
(***************************************************************************)
EXTENDS Integers, Sequences, FiniteSets, TLC

\* ------------------------------------------------------------ arithmetic

Abs(x) == IF x < 0 THEN -x ELSE x

Sign(x) == IF x > 0 THEN 1 ELSE IF x < 0 THEN -1 ELSE 0

Min(a, b) == IF a < b THEN a ELSE b

Max(a, b) == IF a > b THEN a ELSE b

\* hi * lo / c on naturals (hi >= lo) without leaving 32 bits: hi is split
\* into its quotient and remainder by c.
MulDivHL(hi, lo, c) ==
  IF hi <= 46340 THEN (hi * lo) \div c
  ELSE (hi \div c) * lo + ((hi % c) * lo) \div c

\* a * b / c on naturals.
MulDivN(a, b, c) == IF a >= b THEN MulDivHL(a, b, c) ELSE MulDivHL(b, a, c)

\* a * b / c, rounded toward zero (c > 0).
MulDiv(a, b, c) ==
  IF a < 0
    THEN IF b < 0 THEN MulDivN(-a, -b, c) ELSE -MulDivN(-a, b, c)
  ELSE IF b < 0 THEN -MulDivN(a, -b, c) ELSE MulDivN(a, b, c)

\* x times a coefficient given in 1/10000.
Mul4(x, k) == MulDiv(x, k, 10000)

\* Integer square root: the largest r with r * r <= n, by bisection.
RECURSIVE SqrtBisect(_, _, _)
SqrtBisect(n, lo, hi) ==
  IF hi - lo <= 1 THEN lo
  ELSE LET mid == (lo + hi) \div 2
       IN  IF mid * mid <= n THEN SqrtBisect(n, mid, hi) ELSE SqrtBisect(n, lo, mid)

ISqrt(n) == SqrtBisect(n, 0, 46341)

\* Math.sqrt(x*x + z*z) for components in mm/s: computed on cm/s to stay in range.
Hypot(x, z) ==
  LET cx == Abs(x) \div 10
      cz == Abs(z) \div 10
  IN  IF cx = 0 THEN Abs(z) ELSE IF cz = 0 THEN Abs(x)
      ELSE ISqrt(cx * cx + cz * cz) * 10

\* The value standing for NaN and +-Infinity.
NonFinite == -2000000000

IsFinite(x) == x # NonFinite

\* Math.PI in 1/10000.
PI_E4 == 31416

\* Math.atan of a ratio given in E4, in 1/1000 degree: linear between the knots
\* <<tan(angle), angle>> of the table below, 90 degrees past the last knot.
AtanKnots ==
  << <<0, 0>>, <<875, 5000>>, <<1405, 8000>>, <<1763, 10000>>, <<2679, 15000>>,
     <<3640, 20000>>, <<5774, 30000>>, <<10000, 45000>>, <<17321, 60000>>,
     <<37321, 75000>>, <<114301, 85000>>, <<572900, 89000>> >>

RECURSIVE AtanFrom(_, _)
AtanFrom(r, i) ==
  IF i >= Len(AtanKnots) THEN 90000
  ELSE LET a == AtanKnots[i]
           b == AtanKnots[i + 1]
       IN  IF r <= b[1]
             THEN a[2] + MulDiv(r - a[1], b[2] - a[2], b[1] - a[1])
             ELSE AtanFrom(r, i + 1)

\* Math.atan2(y, x) * (180 / Math.PI) for x > 0, in 1/1000 degree.
Atan2Deg(y, x) == Sign(y) * AtanFrom(Min(MulDivN(Abs(y), 10000, x), 2000000), 1)

\* Math.atan2(y, x) for any finite x and y, in 1/1000 degree.
Atan2Full(y, x) ==
  IF x > 0 THEN Atan2Deg(y, x)
  ELSE IF x = 0 THEN Sign(y) * 90000
  ELSE IF y >= 0 THEN 180000 - Atan2Deg(y, -x)
  ELSE -180000 + Atan2Deg(-y, -x)

\* Product of two E4 numbers, rounded to the nearest E4.
MulR4(a, b) == Sign(a) * Sign(b) * ((Abs(a) * Abs(b) + 5000) \div 10000)

\* Math.tan of an angle in 1/1000 rad (|angle| < 1 rad), in E4:
\* x + x^3/3 + 2x^5/15 + 17x^7/315.
Tan(a) ==
  LET x  == a * 10
      x2 == Mul4(x, x)
      x3 == Mul4(x2, x)
      x5 == Mul4(x3, x2)
      x7 == Mul4(x5, x2)
  IN  x + x3 \div 3 + (2 * x5) \div 15 + (17 * x7) \div 315

\* ------------------------------------------------ constants/physics.ts

\* MS_TO_KMH = 3.6, in 1/10: a speed in mm/s times MS_TO_KMH is km/h in E4.
MS_TO_KMH == 36

\* Speed in km/h (E4) of a speed in mm/s.
Kmh(speedMs) == speedMs * MS_TO_KMH

\* DRS_CONFIG (speeds in km/h, forces in N, multipliers in E4).
DRS_CONFIG ==
  [ activationSpeed    |-> 200,
    dragMultiplier     |-> 4000,
    engineBoostLow     |-> 4000,
    engineBoostHigh    |-> 8000,
    boostStartSpeed    |-> 200,
    boostEndSpeed      |-> 300,
    downforceMultiplier |-> 6000 ]

\* DRIFT_CONFIG (angles in degrees, angular velocities in 1/1000 rad/s,
\* speeds in km/h, factors in E4).
DRIFT_CONFIG ==
  [ handbrakeRearGripMultiplier |-> 2000,
    driftEntrySlipAngle         |-> 15,
    driftExitSlipAngle          |-> 8,
    driftLateralCorrection      |-> 5500,
    normalLateralCorrection     |-> 9200,
    driftMaxAngularVelocity     |-> 2800,
    normalMaxAngularVelocity    |-> 1200,
    throttleOversteerFactor     |-> 3500,
    minDriftSpeed               |-> 30,
    countersteerAssist          |-> 3000 ]

\* A speed threshold written in km/h, in E4.
KmhE4(k) == k * 10000

\* -------------------------------------------------- constants/curb.ts

\* CURB_PHYSICS (multipliers in E4, minSpeedForEffect in mm/s).
CURB_PHYSICS ==
  [ speedMultiplier   |-> 9200,
    gripMultiplier    |-> 11500,
    lateralStability  |-> 11000,
    minSpeedForEffect |-> 5000,
    dragMultiplier    |-> 15000 ]

\* ------------------------------------------------ constants/weather.ts

WeatherCondition == {"dry", "hot", "rain", "cold"}

\* WEATHER_CONFIG: the ten multipliers of each weather, in E4.
WEATHER_CONFIG ==
  [ dry |->
      [ frictionSlipMultiplier           |-> 10000,
        dragMultiplier                   |-> 10000,
        downforceMultiplier              |-> 10000,
        engineEfficiencyMultiplier       |-> 10000,
        brakeEfficiencyMultiplier        |-> 10000,
        steerResponseMultiplier          |-> 10000,
        maxSteerAngleMultiplier          |-> 10000,
        driftEntrySlipAngleMultiplier    |-> 10000,
        driftLateralCorrectionMultiplier |-> 10000,
        maxSpeedMultiplier               |-> 10000,
        displayName                      |-> "Dry" ],
    hot |->
      [ frictionSlipMultiplier           |-> 11000,
        dragMultiplier                   |-> 9800,
        downforceMultiplier              |-> 9800,
        engineEfficiencyMultiplier       |-> 10000,
        brakeEfficiencyMultiplier        |-> 9200,
        steerResponseMultiplier          |-> 10000,
        maxSteerAngleMultiplier          |-> 10000,
        driftEntrySlipAngleMultiplier    |-> 11000,
        driftLateralCorrectionMultiplier |-> 10500,
        maxSpeedMultiplier               |-> 10000,
        displayName                      |-> "Hot" ],
    rain |->
      [ frictionSlipMultiplier           |-> 5000,
        dragMultiplier                   |-> 11000,
        downforceMultiplier              |-> 9000,
        engineEfficiencyMultiplier       |-> 10000,
        brakeEfficiencyMultiplier        |-> 5500,
        steerResponseMultiplier          |-> 8000,
        maxSteerAngleMultiplier          |-> 10000,
        driftEntrySlipAngleMultiplier    |-> 5000,
        driftLateralCorrectionMultiplier |-> 5000,
        maxSpeedMultiplier               |-> 10000,
        displayName                      |-> "Rain" ],
    cold |->
      [ frictionSlipMultiplier           |-> 2500,
        dragMultiplier                   |-> 10500,
        downforceMultiplier              |-> 10500,
        engineEfficiencyMultiplier       |-> 10000,
        brakeEfficiencyMultiplier        |-> 3500,
        steerResponseMultiplier          |-> 7000,
        maxSteerAngleMultiplier          |-> 10000,
        driftEntrySlipAngleMultiplier    |-> 3000,
        driftLateralCorrectionMultiplier |-> 3500,
        maxSpeedMultiplier               |-> 10000,
        displayName                      |-> "Freezing" ] ]

\* Transition duration when the weather changes (ms).
WEATHER_TRANSITION_DURATION == 3000

DEFAULT_WEATHER == "dry"

WEATHER_ORDER == <<"dry", "hot", "rain", "cold">>

\* -------------------------------------------------- constants/tires.ts

TireCompound == {"soft", "medium", "hard", "wet", "intermediate"}

\* TIRE_CONFIG: grip and penalty in E4, degradationRate in 1/10000 per second.
TIRE_CONFIG ==
  [ soft         |-> [ gripMultiplier |-> 11500, optimalWeather |-> {"dry", "hot"},
                       wrongWeatherPenalty |-> 2500, degradationRate |-> 15 ],
    medium       |-> [ gripMultiplier |-> 10000, optimalWeather |-> {"dry", "hot"},
                       wrongWeatherPenalty |-> 3000, degradationRate |-> 8 ],
    hard         |-> [ gripMultiplier |-> 9200, optimalWeather |-> {"dry", "hot"},
                       wrongWeatherPenalty |-> 3500, degradationRate |-> 4 ],
    wet          |-> [ gripMultiplier |-> 7500, optimalWeather |-> {"rain"},
                       wrongWeatherPenalty |-> 5000, degradationRate |-> 8 ],
    intermediate |-> [ gripMultiplier |-> 8800, optimalWeather |-> {"rain", "cold"},
                       wrongWeatherPenalty |-> 7000, degradationRate |-> 6 ] ]

DEFAULT_TIRE == "medium"

\* Tire wear is kept in 1/1000000 percent: 100 percent.
WearFull == 100 * 1000000

\* A wear multiplier that takes the wear in percent for the wear factor.
getWearGripMultiplierOfPercent(wearPercent) ==
  LET wearFactor == wearPercent \div 100
  IN  10000 - Mul4(Mul4(wearFactor, wearFactor), 2500)

\* getWearGripMultiplier(wearPercent): 1 - wearFactor^2 * 0.25, in E4.
getWearGripMultiplier(wearPercent) ==
  LET wearFactor == wearPercent \div 10000   \* wearPercent / 100, in E4
  IN  10000 - Mul4(Mul4(wearFactor, wearFactor), 2500)

\* --------------------------------------------- Car.tsx: car constants

CAR_MASS == 600

\* WHEELBASE = 2.7 m, in mm.
WHEELBASE == 2700

\* TRACK_WIDTH = 1.9 m, in mm.
TRACK_WIDTH == 1900

\* CG_HEIGHT = 0.35 m, in mm.
CG_HEIGHT == 350

\* WEIGHT_DIST_FRONT = 0.47, in E4.
WEIGHT_DIST_FRONT == 4700

\* BASE_MAX_SPEED = 310 / 3.6 m/s, in mm/s.
BASE_MAX_SPEED == (310 * 10000) \div MS_TO_KMH

\* BASE_MAX_REVERSE_SPEED = 40 / 3.6 m/s, in mm/s.
BASE_MAX_REVERSE_SPEED == (40 * 10000) \div MS_TO_KMH

\* Engine forces in N.
ENGINE_FORCE_LOW == 18000

ENGINE_FORCE_MID == 12000

ENGINE_FORCE_HIGH == 7000

BASE_BRAKE_FORCE == 35000

ENGINE_BRAKE == 2500

\* BASE_DRAG_COEFFICIENT = 0.35, in E4.
BASE_DRAG_COEFFICIENT == 3500

\* FRONTAL_AREA = 2.0 m^2.
FRONTAL_AREA == 2

\* AIR_DENSITY = 1.225 kg/m^3, in E4.
AIR_DENSITY == 12250

\* BASE_DOWNFORCE_COEFFICIENT = 2.8, in E4.
BASE_DOWNFORCE_COEFFICIENT == 28000

\* BASE_TIRE_GRIP_COEFFICIENT = 1.7, in E4.
BASE_TIRE_GRIP_COEFFICIENT == 17000

\* OPTIMAL_SLIP_ANGLE = 8 degrees, in 1/1000 degree.
OPTIMAL_SLIP_ANGLE == 8000

\* SLIP_ANGLE_FALLOFF = 0.03 per degree, in E4.
SLIP_ANGLE_FALLOFF == 300

\* TIRE_LOAD_SENSITIVITY = 0.015, in E4.
TIRE_LOAD_SENSITIVITY == 150

\* BASE_MAX_STEER_ANGLE = 22 * (Math.PI / 180) rad, in 1/1000 rad.
BASE_MAX_STEER_ANGLE == (22 * PI_E4) \div 1800

\* BASE_MIN_STEER_ANGLE = 4 * (Math.PI / 180) rad, in 1/1000 rad.
BASE_MIN_STEER_ANGLE == (4 * PI_E4) \div 1800

\* BASE_STEER_SPEED = 1.8 rad/s, in 1/1000 rad/s.
BASE_STEER_SPEED == 1800

\* STEER_RETURN_SPEED = 3.0 rad/s, in 1/1000 rad/s.
STEER_RETURN_SPEED == 3000

\* WEIGHT_TRANSFER_LONG = 0.35, in E4.
WEIGHT_TRANSFER_LONG == 3500

\* WEIGHT_TRANSFER_LAT = 0.4, in E4.
WEIGHT_TRANSFER_LAT == 4000

\* The literal 9.81 (m/s^2), in mm/s^2.
GRAVITY == 9810

\* MAX_ANG_VEL = 5 rad/s, in 1/1000 rad/s.
MAX_ANG_VEL == 5000

\* MAX_VELOCITY = 100 m/s, in mm/s.
MAX_VELOCITY == 100000

\* speedThreshold = 5 m/s of the low-speed velocity smoothing, in mm/s.
speedThreshold == 5000

\* wheelRadius = 0.33 m, in mm.
wheelRadius == 330

\* ------------------------------------------- Car.tsx: pure functions

\* lerp(a, b, t) = a + (b - a) * t, t in E4.
lerp(a, b, t) == a + Mul4(b - a, t)

\* dt * k for a time step in ms and a rate k per second, in E4.
DtTimes(dt, k) == dt * k * 10

\* sanitizeNumber(value, fallback).
sanitizeNumber(value, fallback) == IF ~IsFinite(value) THEN fallback ELSE value

\* The four bands of getEngineForce, each as the source computes it (N -> mN).
EngineBandLow(speedKmh) == ENGINE_FORCE_LOW * 1000

\* A mid band that starts from the mid-range force instead of the low-speed
\* force.
EngineBandMidFromMid(speedKmh) ==
  LET t == (speedKmh - KmhE4(60)) \div 90
  IN  ENGINE_FORCE_MID * 1000 - Mul4((ENGINE_FORCE_LOW - ENGINE_FORCE_MID) * 1000, t)

EngineBandMid(speedKmh) ==
  LET t == (speedKmh - KmhE4(60)) \div 90
  IN  ENGINE_FORCE_LOW * 1000 - Mul4((ENGINE_FORCE_LOW - ENGINE_FORCE_MID) * 1000, t)

EngineBandHigh(speedKmh) ==
  LET t == (speedKmh - KmhE4(150)) \div 100
  IN  ENGINE_FORCE_MID * 1000 - Mul4((ENGINE_FORCE_MID - ENGINE_FORCE_HIGH) * 1000, t)

EngineBandTop(speedKmh) ==
  LET remaining       == Max(0, 10000 - (speedKmh - KmhE4(250)) \div 60)
      smoothRemaining == Mul4(remaining, remaining)
  IN  Mul4(ENGINE_FORCE_HIGH * 1000, 5000 + Mul4(5000, smoothRemaining))

\* getEngineForce(speedMs), in mN.
getEngineForce(speedMs) ==
  LET speedKmh == Kmh(speedMs)
  IN  IF speedKmh < KmhE4(60) THEN EngineBandLow(speedKmh)
      ELSE IF speedKmh < KmhE4(150) THEN EngineBandMid(speedKmh)
      ELSE IF speedKmh < KmhE4(250) THEN EngineBandHigh(speedKmh)
      ELSE EngineBandTop(speedKmh)

\* 0.5 * AIR_DENSITY * coeff * FRONTAL_AREA * speedMs * speedMs, in mN.
AeroForce(speedMs, coeff) ==
  LET k == Mul4(AIR_DENSITY \div 2, coeff) * FRONTAL_AREA
  IN  MulDiv(Mul4(speedMs, k), speedMs, 1000)

getDragForce(speedMs, dragCoeff) == AeroForce(speedMs, dragCoeff)

getDownforce(speedMs, downforceCoeff) == AeroForce(speedMs, downforceCoeff)

\* getTireGrip(slipAngleDeg, normalLoad, gripCoeff), in E4.
getTireGrip(slipAngleDeg, normalLoad, gripCoeff) ==
  LET absSlip == Abs(slipAngleDeg)
      lateralEfficiency ==
        IF absSlip < OPTIMAL_SLIP_ANGLE
          THEN 7000 + MulDiv(3000, absSlip, OPTIMAL_SLIP_ANGLE)
          ELSE Max(5000, 10000 - MulDiv(absSlip - OPTIMAL_SLIP_ANGLE, SLIP_ANGLE_FALLOFF, 1000))
      loadFactor ==
        10000 - MulDiv(Mul4(normalLoad - (CAR_MASS * GRAVITY) \div 4, TIRE_LOAD_SENSITIVITY), 1, 1000)
  IN  Mul4(Mul4(gripCoeff, lateralEfficiency), Max(7000, loadFactor))

\* t * t * (3 - 2 * t), t in E4.
Smoothstep(t) == Mul4(Mul4(t, t), 30000 - 2 * t)

\* getMaxSteerAngle(speedKmh, maxAngle, minAngle).
getMaxSteerAngle(speedKmh, maxAngle, minAngle) ==
  IF speedKmh < KmhE4(40) THEN maxAngle
  ELSE IF speedKmh < KmhE4(120)
    THEN LET eased == Smoothstep((speedKmh - KmhE4(40)) \div 80)
         IN  maxAngle - Mul4(maxAngle - Mul4(maxAngle, 5000), eased)
  ELSE IF speedKmh < KmhE4(220)
    THEN LET eased == Smoothstep((speedKmh - KmhE4(120)) \div 100)
         IN  Mul4(maxAngle, 5000) - Mul4(Mul4(maxAngle, 5000) - minAngle, eased)
  ELSE minAngle

\* A turn rate capped at the drift maximum in either state.
calculateTurnDynamicsDriftCap(speedMs, steerAngle, gripFactor, isDrifting) ==
  IF Abs(steerAngle) < 5 \/ Abs(speedMs) < 300 THEN 0
  ELSE
    LET tanSteer == Tan(Abs(steerAngle))
    IN  IF Abs(tanSteer) < 10 THEN 0
        ELSE
          LET turnRadius == MulDiv(WHEELBASE, 10000, tanSteer)
          IN  IF turnRadius > 1000 * 1000 THEN 0
              ELSE
                LET angularVel    == MulDiv(speedMs, 1000, turnRadius)
                    gripInfluence == IF isDrifting THEN 5000 + Mul4(3500, gripFactor)
                                                   ELSE 4000 + Mul4(2500, gripFactor)
                    capped        == Min(Abs(Mul4(angularVel, gripInfluence)),
                                         DRIFT_CONFIG.driftMaxAngularVelocity)
                IN  capped * Sign(steerAngle) * Sign(speedMs)

\* calculateTurnDynamics(speedMs, steerAngle, gripFactor, isDrifting), in 1/1000 rad/s.
calculateTurnDynamics(speedMs, steerAngle, gripFactor, isDrifting) ==
  IF Abs(steerAngle) < 5 \/ Abs(speedMs) < 300 THEN 0
  ELSE
    LET tanSteer == Tan(Abs(steerAngle))
    IN  IF Abs(tanSteer) < 10 THEN 0
        ELSE
          LET turnRadius == MulDiv(WHEELBASE, 10000, tanSteer)
          IN  IF turnRadius > 1000 * 1000 THEN 0
              ELSE
                LET angularVel    == MulDiv(speedMs, 1000, turnRadius)
                    gripInfluence == IF isDrifting THEN 5000 + Mul4(3500, gripFactor)
                                                   ELSE 4000 + Mul4(2500, gripFactor)
                    maxAngVel     == IF isDrifting
                                       THEN DRIFT_CONFIG.driftMaxAngularVelocity
                                       ELSE DRIFT_CONFIG.normalMaxAngularVelocity
                    capped        == Min(Abs(Mul4(angularVel, gripInfluence)), maxAngVel)
                IN  capped * Sign(steerAngle) * Sign(speedMs)

\* calculateGear(speedKmh), speedKmh in E4.
calculateGear(speedKmh) ==
  IF speedKmh < 0 THEN -1
  ELSE IF speedKmh < KmhE4(45) THEN 1
  ELSE IF speedKmh < KmhE4(85) THEN 2
  ELSE IF speedKmh < KmhE4(125) THEN 3
  ELSE IF speedKmh < KmhE4(170) THEN 4
  ELSE IF speedKmh < KmhE4(220) THEN 5
  ELSE IF speedKmh < KmhE4(275) THEN 6
  ELSE 7

\* ------------------------------------------------- stores/useWeatherStore

ModifierKeys ==
  { "frictionSlipMultiplier", "dragMultiplier", "downforceMultiplier",
    "engineEfficiencyMultiplier", "brakeEfficiencyMultiplier",
    "steerResponseMultiplier", "maxSteerAngleMultiplier",
    "driftEntrySlipAngleMultiplier", "driftLateralCorrectionMultiplier",
    "maxSpeedMultiplier" }

\* lerpModifiers(from, to, t): the ten multipliers interpolated, displayName
\* taken from the target (t in E4).
lerpModifiers(from, to, t) ==
  [ k \in ModifierKeys \cup {"displayName"} |->
      IF k = "displayName" THEN to[k] ELSE from[k] + Mul4(to[k] - from[k], t) ]

\* The store as created.  transitionProgress is kept in milliseconds of
\* WEATHER_TRANSITION_DURATION: the source's 1 is 3000 here.
WeatherStoreInit ==
  [ currentWeather     |-> DEFAULT_WEATHER,
    previousWeather    |-> DEFAULT_WEATHER,
    transitionProgress |-> WEATHER_TRANSITION_DURATION,
    isTransitioning    |-> FALSE,
    currentModifiers   |-> WEATHER_CONFIG[DEFAULT_WEATHER] ]

\* setWeather(weather) on store state w.
setWeather(w, weather) ==
  IF weather = w.currentWeather THEN w
  ELSE [ w EXCEPT !.previousWeather    = w.currentWeather,
                  !.currentWeather     = weather,
                  !.transitionProgress = 0,
                  !.isTransitioning    = TRUE ]

\* An updateTransition that stops short of the end of the transition.
updateTransitionStalls(w, delta) ==
  IF ~w.isTransitioning THEN w
  ELSE LET newProgress   == Min(WEATHER_TRANSITION_DURATION - 1, w.transitionProgress + delta)
           p4            == (newProgress * 10000) \div WEATHER_TRANSITION_DURATION
           easedProgress == Smoothstep(p4)
       IN  [ w EXCEPT !.transitionProgress = newProgress,
                      !.isTransitioning    = newProgress < WEATHER_TRANSITION_DURATION,
                      !.currentModifiers   =
                         lerpModifiers(WEATHER_CONFIG[w.previousWeather],
                                       WEATHER_CONFIG[w.currentWeather], easedProgress) ]

\* updateTransition(delta) on store state w, delta in ms.
updateTransition(w, delta) ==
  IF ~w.isTransitioning THEN w
  ELSE LET newProgress   == Min(WEATHER_TRANSITION_DURATION, w.transitionProgress + delta)
           p4            == (newProgress * 10000) \div WEATHER_TRANSITION_DURATION
           easedProgress == Smoothstep(p4)
       IN  [ w EXCEPT !.transitionProgress = newProgress,
                      !.isTransitioning    = newProgress < WEATHER_TRANSITION_DURATION,
                      !.currentModifiers   =
                         lerpModifiers(WEATHER_CONFIG[w.previousWeather],
                                       WEATHER_CONFIG[w.currentWeather], easedProgress) ]

IndexOf(seq, e) == CHOOSE i \in 1..Len(seq) : seq[i] = e

\* cycleWeather() on store state w.
cycleWeather(w) ==
  setWeather(w, WEATHER_ORDER[(IndexOf(WEATHER_ORDER, w.currentWeather) % Len(WEATHER_ORDER)) + 1])

\* --------------------------------------------------- stores/useTireStore

\* calculateEffectiveGrip() on store state t (E4).
calculateEffectiveGrip(t) ==
  LET config == TIRE_CONFIG[t.currentCompound]
      grip0  == config.gripMultiplier
      grip1  == IF t.currentWeather \in config.optimalWeather THEN grip0
                ELSE Mul4(grip0, config.wrongWeatherPenalty)
  IN  Mul4(grip1, getWearGripMultiplier(t.wear))

TireStoreInit ==
  [ currentCompound         |-> DEFAULT_TIRE,
    wear                    |-> 0,
    effectiveGripMultiplier |-> 10000,
    currentWeather          |-> "dry" ]

\* setTireCompound(compound) on store state t.
setTireCompound(t, compound) ==
  LET t1 == [ t EXCEPT !.currentCompound = compound ]
  IN  [ t1 EXCEPT !.effectiveGripMultiplier = calculateEffectiveGrip(t1) ]

\* updateWear(delta, speedMs, isDrifting) on store state t: delta in ms, speedMs
\* in mm/s.  The grip is recalculated from the store as it is before the new
\* wear is set.
updateWear(t, delta, speedMs, isDrifting) ==
  LET config      == TIRE_CONFIG[t.currentCompound]
      speedFactor == Max(2000, speedMs \div 3)
      rate1       == Mul4(config.degradationRate * 1000, speedFactor)
      rate2       == IF isDrifting THEN rate1 * 3 ELSE rate1
      rate3       == IF t.currentWeather \notin config.optimalWeather
                     THEN (rate2 * 3) \div 2 ELSE rate2
      newWear     == Min(WearFull, t.wear + MulDiv(rate3, delta, 100))
      newGrip     == calculateEffectiveGrip(t)
  IN  [ t EXCEPT !.wear = newWear, !.effectiveGripMultiplier = newGrip ]

\* resetWear() on store state t.
resetWear(t) ==
  LET t1 == [ t EXCEPT !.wear = 0 ]
  IN  [ t1 EXCEPT !.effectiveGripMultiplier = calculateEffectiveGrip(t1) ]

\* updateWeather(weather) on store state t.
updateWeather(t, weather) ==
  LET t1 == [ t EXCEPT !.currentWeather = weather ]
  IN  [ t1 EXCEPT !.effectiveGripMultiplier = calculateEffectiveGrip(t1) ]

\* --------------------------------------------------- stores/useCurbStore

DEFAULT_MODIFIERS ==
  [ speedMultiplier |-> 10000, gripMultiplier |-> 10000,
    lateralStability |-> 10000, dragMultiplier |-> 10000 ]

ON_CURB_MODIFIERS ==
  [ speedMultiplier  |-> CURB_PHYSICS.speedMultiplier,
    gripMultiplier   |-> CURB_PHYSICS.gripMultiplier,
    lateralStability |-> CURB_PHYSICS.lateralStability,
    dragMultiplier   |-> CURB_PHYSICS.dragMultiplier ]

CurbStoreInit ==
  [ isOnCurb |-> FALSE, curbSide |-> "null", contactCount |-> 0,
    currentModifiers |-> DEFAULT_MODIFIERS ]

\* An enterCurb that does not count overlapping curbs.
enterCurbUncounted(c, side) ==
  [ isOnCurb |-> TRUE, curbSide |-> side, contactCount |-> 1,
    currentModifiers |-> ON_CURB_MODIFIERS ]

\* enterCurb(side) on store state c.
enterCurb(c, side) ==
  [ isOnCurb |-> TRUE, curbSide |-> side, contactCount |-> c.contactCount + 1,
    currentModifiers |-> ON_CURB_MODIFIERS ]

\* An exitCurb that leaves the last curb without restoring the modifiers.
exitCurbKeepModifiers(c) ==
  LET newContactCount == Max(0, c.contactCount - 1)
  IN  IF newContactCount = 0
        THEN [ c EXCEPT !.isOnCurb = FALSE, !.curbSide = "null", !.contactCount = 0 ]
      ELSE [ c EXCEPT !.contactCount = newContactCount ]

\* exitCurb() on store state c.
exitCurb(c) ==
  LET newContactCount == Max(0, c.contactCount - 1)
  IN  IF newContactCount = 0 THEN CurbStoreInit
      ELSE [ c EXCEPT !.contactCount = newContactCount ]

\* reset() on the curb store.
reset(c) == CurbStoreInit

\* ------------------------------------------------ Car.tsx: start position

\* A vector is a record [x, y, z]; a quaternion a record [x, y, z, w] in E4.
Vec(x, y, z) == [ x |-> x, y |-> y, z |-> z ]

Quat(x, y, z, w) == [ x |-> x, y |-> y, z |-> z, w |-> w ]

Dot(a, b) == Mul4(a.x, b.x) + Mul4(a.y, b.y) + Mul4(a.z, b.z)

\* (0, 0, 1).applyQuaternion(q): the car's forward direction, in E4.
ForwardOf(q) ==
  Vec(2 * (MulR4(q.x, q.z) + MulR4(q.w, q.y)),
      2 * (MulR4(q.y, q.z) - MulR4(q.w, q.x)),
      10000 - 2 * (MulR4(q.x, q.x) + MulR4(q.y, q.y)))

\* (1, 0, 0).applyQuaternion(q): the car's right direction, in E4.
RightOf(q) ==
  Vec(10000 - 2 * (MulR4(q.y, q.y) + MulR4(q.z, q.z)),
      2 * (MulR4(q.x, q.y) + MulR4(q.w, q.z)),
      2 * (MulR4(q.x, q.z) - MulR4(q.w, q.y)))

\* The start position and rotation computed from the placed objects (a
\* sequence of records with type, position and, when they were stored,
\* startPoint and endPoint).  Lengths in mm, the rotation in 1/1000 degree.
DefaultStart == [ startPosition |-> Vec(0, 1000, 0), startRotation |-> Vec(0, 0, 0) ]

\* A start computation without the defaults: no checkpoint, a checkpoint
\* without end points or a zero-length line give a non-finite position.
StartOfNoFallback(placedObjects) ==
  LET idx  == { i \in 1..Len(placedObjects) : placedObjects[i].type = "checkpoint" }
      lost == [ startPosition |-> Vec(NonFinite, NonFinite, NonFinite),
                startRotation |-> Vec(0, 0, 0) ]
  IN  IF idx = {} THEN lost
      ELSE LET checkpoint == placedObjects[CHOOSE i \in idx : \A j \in idx : i <= j]
           IN  IF "startPoint" \notin DOMAIN checkpoint \/ "endPoint" \notin DOMAIN checkpoint
                 THEN lost
               ELSE LET perpX == -(checkpoint.endPoint.z - checkpoint.startPoint.z)
                        perpZ == checkpoint.endPoint.x - checkpoint.startPoint.x
                        len   == Hypot(perpX, perpZ)
                    IN  IF len > 0
                          THEN LET normX == MulDiv(perpX, 10000, len)
                                   normZ == MulDiv(perpZ, 10000, len)
                               IN  [ startPosition |->
                                       Vec(checkpoint.position.x - normX \div 2, 1000,
                                           checkpoint.position.z - normZ \div 2),
                                     startRotation |-> Vec(0, Atan2Full(normX, normZ), 0) ]
                        ELSE lost

StartOf(placedObjects) ==
  LET idx == { i \in 1..Len(placedObjects) : placedObjects[i].type = "checkpoint" }
  IN  IF idx = {} THEN DefaultStart
      ELSE LET checkpoint == placedObjects[CHOOSE i \in idx : \A j \in idx : i <= j]
           IN  IF "startPoint" \notin DOMAIN checkpoint \/ "endPoint" \notin DOMAIN checkpoint
                 THEN DefaultStart
               ELSE LET dx    == checkpoint.endPoint.x - checkpoint.startPoint.x
                        dz    == checkpoint.endPoint.z - checkpoint.startPoint.z
                        perpX == -dz
                        perpZ == dx
                        len   == Hypot(perpX, perpZ)
                    IN  IF len > 0
                          THEN LET normX == MulDiv(perpX, 10000, len)
                                   normZ == MulDiv(perpZ, 10000, len)
                               IN  [ startPosition |->
                                       Vec(checkpoint.position.x - normX \div 2, 1000,
                                           checkpoint.position.z - normZ \div 2),
                                     startRotation |-> Vec(0, Atan2Full(normX, normZ), 0) ]
                        ELSE DefaultStart

\* --------------------------------------- Car.tsx useFrame: coefficients

\* Coefficients that take the on-curb grip multiplier whether or not the car
\* is on a curb.
EffectiveCoefficientsCurbAlways(weatherModifiers, tireGripMultiplier, isOnCurb, curbModifiers) ==
  [ TIRE_GRIP_COEFFICIENT |->
      Mul4(Mul4(Mul4(BASE_TIRE_GRIP_COEFFICIENT, weatherModifiers.frictionSlipMultiplier),
                tireGripMultiplier), ON_CURB_MODIFIERS.gripMultiplier),
    DRAG_COEFFICIENT      |-> Mul4(BASE_DRAG_COEFFICIENT, weatherModifiers.dragMultiplier),
    DOWNFORCE_COEFFICIENT |-> Mul4(BASE_DOWNFORCE_COEFFICIENT, weatherModifiers.downforceMultiplier),
    BRAKE_FORCE           |-> Mul4(BASE_BRAKE_FORCE, weatherModifiers.brakeEfficiencyMultiplier),
    MAX_SPEED             |-> Mul4(BASE_MAX_SPEED, weatherModifiers.maxSpeedMultiplier),
    MAX_REVERSE_SPEED     |-> Mul4(BASE_MAX_REVERSE_SPEED, weatherModifiers.maxSpeedMultiplier),
    MAX_STEER_ANGLE       |-> Mul4(BASE_MAX_STEER_ANGLE, weatherModifiers.maxSteerAngleMultiplier),
    MIN_STEER_ANGLE       |-> Mul4(BASE_MIN_STEER_ANGLE, weatherModifiers.maxSteerAngleMultiplier),
    STEER_SPEED           |-> Mul4(BASE_STEER_SPEED, weatherModifiers.steerResponseMultiplier) ]

\* The weather-, tire- and curb-modified physics values of a frame, from the
\* values the component has read from the stores.
EffectiveCoefficients(weatherModifiers, tireGripMultiplier, isOnCurb, curbModifiers) ==
  LET curbGripBonus == IF isOnCurb THEN curbModifiers.gripMultiplier ELSE 10000
  IN  [ TIRE_GRIP_COEFFICIENT |->
          Mul4(Mul4(Mul4(BASE_TIRE_GRIP_COEFFICIENT, weatherModifiers.frictionSlipMultiplier),
                    tireGripMultiplier), curbGripBonus),
        DRAG_COEFFICIENT      |-> Mul4(BASE_DRAG_COEFFICIENT, weatherModifiers.dragMultiplier),
        DOWNFORCE_COEFFICIENT |-> Mul4(BASE_DOWNFORCE_COEFFICIENT, weatherModifiers.downforceMultiplier),
        BRAKE_FORCE           |-> Mul4(BASE_BRAKE_FORCE, weatherModifiers.brakeEfficiencyMultiplier),
        MAX_SPEED             |-> Mul4(BASE_MAX_SPEED, weatherModifiers.maxSpeedMultiplier),
        MAX_REVERSE_SPEED     |-> Mul4(BASE_MAX_REVERSE_SPEED, weatherModifiers.maxSpeedMultiplier),
        MAX_STEER_ANGLE       |-> Mul4(BASE_MAX_STEER_ANGLE, weatherModifiers.maxSteerAngleMultiplier),
        MIN_STEER_ANGLE       |-> Mul4(BASE_MIN_STEER_ANGLE, weatherModifiers.maxSteerAngleMultiplier),
        STEER_SPEED           |-> Mul4(BASE_STEER_SPEED, weatherModifiers.steerResponseMultiplier) ]

\* ---------------------------------------- Car.tsx useFrame: kinematics

\* Forward and lateral speed of the reported velocity in the car's frame.
Kinematics(linvel, rot) ==
  LET forwardDir   == ForwardOf(rot)
      rightDir     == RightOf(rot)
      currentSpeed == Dot(linvel, forwardDir)
  IN  [ forwardDir   |-> forwardDir,
        rightDir     |-> rightDir,
        currentSpeed |-> currentSpeed,
        absSpeed     |-> Abs(currentSpeed),
        speedKmh     |-> Kmh(Abs(currentSpeed)),
        lateralSpeed |-> Dot(linvel, rightDir) ]

\* --------------------------------------- Car.tsx useFrame: aerodynamics

\* Aerodynamics whose DRS reduces the downforce but leaves the drag.
AerodynamicsDownforceOnly(absSpeed, speedKmh, drs, DRAG_COEFFICIENT, DOWNFORCE_COEFFICIENT) ==
  LET drsActive == drs /\ speedKmh >= KmhE4(DRS_CONFIG.activationSpeed)
      downforce == getDownforce(absSpeed, DOWNFORCE_COEFFICIENT)
  IN  [ drsActive |-> drsActive,
        dragForce |-> getDragForce(absSpeed, DRAG_COEFFICIENT),
        downforce |-> IF drsActive THEN Mul4(downforce, DRS_CONFIG.downforceMultiplier)
                      ELSE downforce ]

\* Drag and downforce (mN) with the DRS modifiers applied when DRS is active.
Aerodynamics(absSpeed, speedKmh, drs, DRAG_COEFFICIENT, DOWNFORCE_COEFFICIENT) ==
  LET drsActive  == drs /\ speedKmh >= KmhE4(DRS_CONFIG.activationSpeed)
      dragForce  == getDragForce(absSpeed, DRAG_COEFFICIENT)
      downforce  == getDownforce(absSpeed, DOWNFORCE_COEFFICIENT)
  IN  [ drsActive |-> drsActive,
        dragForce |-> IF drsActive THEN Mul4(dragForce, DRS_CONFIG.dragMultiplier) ELSE dragForce,
        downforce |-> IF drsActive THEN Mul4(downforce, DRS_CONFIG.downforceMultiplier)
                      ELSE downforce ]

\* ------------------------------------- Car.tsx useFrame: weight transfer

\* Axle loads (mN) from the downforce and the G values of the previous frame.
WeightTransfer(downforce, longG, latG) ==
  LET baseWeight    == CAR_MASS * GRAVITY
      totalLoad     == baseWeight + downforce
      longTransfer  == Mul4(MulDiv(longG * CAR_MASS, CG_HEIGHT, WHEELBASE), WEIGHT_TRANSFER_LONG)
      latTransfer   == Mul4(MulDiv(Abs(latG) * CAR_MASS, CG_HEIGHT, TRACK_WIDTH), WEIGHT_TRANSFER_LAT)
      frontBaseLoad == Mul4(totalLoad, WEIGHT_DIST_FRONT)
      rearBaseLoad  == Mul4(totalLoad, 10000 - WEIGHT_DIST_FRONT)
  IN  [ baseWeight   |-> baseWeight,
        totalLoad    |-> totalLoad,
        longTransfer |-> longTransfer,
        latTransfer  |-> latTransfer,
        frontLoad    |-> frontBaseLoad + longTransfer,
        rearLoad     |-> rearBaseLoad - longTransfer ]

\* ------------------------------------------- Car.tsx useFrame: steering

\* A steering step without the final clamp to the maximum steer angle.
SteeringNoClamp(currentSteer, left, right, speedKmh, dt, MAX_STEER_ANGLE, MIN_STEER_ANGLE, STEER_SPEED) ==
  LET maxSteer          == getMaxSteerAngle(speedKmh, MAX_STEER_ANGLE, MIN_STEER_ANGLE)
      steerDelta        == MulDiv(STEER_SPEED, dt, 1000)
      centeringStrength == Mul4(STEER_RETURN_SPEED, 10000 + speedKmh \div 100)
      centeringDelta    == MulDiv(centeringStrength, dt, 1000)
      steered ==
        IF left THEN Min(currentSteer + steerDelta, maxSteer)
        ELSE IF right THEN Max(currentSteer - steerDelta, -maxSteer)
        ELSE IF Abs(currentSteer) < centeringDelta THEN 0
        ELSE currentSteer - Sign(currentSteer) * centeringDelta
  IN  [ maxSteer |-> maxSteer,
        steer    |-> steered ]

\* The steer angle (1/1000 rad) after the frame's steering input; dt in ms.
Steering(currentSteer, left, right, speedKmh, dt, MAX_STEER_ANGLE, MIN_STEER_ANGLE, STEER_SPEED) ==
  LET maxSteer          == getMaxSteerAngle(speedKmh, MAX_STEER_ANGLE, MIN_STEER_ANGLE)
      steerDelta        == MulDiv(STEER_SPEED, dt, 1000)
      centeringStrength == Mul4(STEER_RETURN_SPEED, 10000 + speedKmh \div 100)
      centeringDelta    == MulDiv(centeringStrength, dt, 1000)
      steered ==
        IF left THEN Min(currentSteer + steerDelta, maxSteer)
        ELSE IF right THEN Max(currentSteer - steerDelta, -maxSteer)
        ELSE IF Abs(currentSteer) < centeringDelta THEN 0
        ELSE currentSteer - Sign(currentSteer) * centeringDelta
  IN  [ maxSteer |-> maxSteer,
        steer    |-> Max(-maxSteer, Min(maxSteer, steered)) ]

\* -------------------------------------- Car.tsx useFrame: slip and grip

\* The smoothed slip angle (1/1000 degree) after the frame.
SlipAngle(smoothedSlipAngle, lateralSpeed, absSpeed, dt) ==
  LET rawSlipAngle == IF absSpeed > 500 THEN Atan2Deg(lateralSpeed, absSpeed) ELSE 0
  IN  lerp(smoothedSlipAngle, rawSlipAngle, Min(10000, DtTimes(dt, 25)))

\* A rear grip whose handbrake reduction applies at any speed.
RearGripHandbrakeAnySpeed(slipAngle, rearLoad, TIRE_GRIP_COEFFICIENT, handbrake, forward, steer, speedKmh) ==
  LET rear0 == getTireGrip(slipAngle, rearLoad, TIRE_GRIP_COEFFICIENT)
      rear1 == IF handbrake THEN Mul4(rear0, DRIFT_CONFIG.handbrakeRearGripMultiplier)
               ELSE rear0
  IN  IF forward /\ Abs(steer) > 50 /\ speedKmh > KmhE4(DRIFT_CONFIG.minDriftSpeed)
        THEN Mul4(rear1, 10000 - DRIFT_CONFIG.throttleOversteerFactor)
      ELSE rear1

\* The rear grip coefficient with the handbrake and throttle-oversteer
\* reductions applied (E4).
RearGrip(slipAngle, rearLoad, TIRE_GRIP_COEFFICIENT, handbrake, forward, steer, speedKmh) ==
  LET rear0     == getTireGrip(slipAngle, rearLoad, TIRE_GRIP_COEFFICIENT)
      rear1     == IF handbrake /\ speedKmh > KmhE4(DRIFT_CONFIG.minDriftSpeed)
                   THEN Mul4(rear0, DRIFT_CONFIG.handbrakeRearGripMultiplier) ELSE rear0
      isTurning == Abs(steer) > 50
  IN  IF forward /\ isTurning /\ speedKmh > KmhE4(DRIFT_CONFIG.minDriftSpeed)
        THEN Mul4(rear1, 10000 - DRIFT_CONFIG.throttleOversteerFactor)
      ELSE rear1

\* The effective grip of the frame (E4): front and rear combined, with the
\* lateral-transfer penalty and the downforce bonus.
EffectiveGrip(frontGripCoefficient, rearGripCoefficient, latTransfer, downforce, baseWeight) ==
  LET gripCoefficient    == Mul4(frontGripCoefficient, 4000) + Mul4(rearGripCoefficient, 6000)
      latTransferPenalty == 10000 - Mul4(MulDiv(latTransfer, 10, baseWeight \div 1000), 1500)
      downforceBonus     == 10000 + Mul4(MulDiv(downforce, 10, baseWeight \div 1000), 3000)
  IN  sanitizeNumber(Mul4(Mul4(gripCoefficient, downforceBonus), latTransferPenalty), 10000)

\* --------------------------------- Car.tsx useFrame: drift state machine

\* The drift thresholds (1/1000 degree) under the weather's multiplier.
driftEntryAngle(weatherModifiers) ==
  Mul4(DRIFT_CONFIG.driftEntrySlipAngle * 1000, weatherModifiers.driftEntrySlipAngleMultiplier)

\* An exit threshold that leaves the weather's multiplier out.
driftExitAngleUnscaled(weatherModifiers) == DRIFT_CONFIG.driftExitSlipAngle * 1000

driftExitAngle(weatherModifiers) ==
  Mul4(DRIFT_CONFIG.driftExitSlipAngle * 1000, weatherModifiers.driftEntrySlipAngleMultiplier)

\* A drift flag that leaves Drifting as soon as the slip angle is no longer
\* above the entry threshold.
DriftStepNoHysteresis(isDrifting, slipAngle, speedKmh, weatherModifiers) ==
  Abs(slipAngle) > driftEntryAngle(weatherModifiers)
    /\ (isDrifting \/ speedKmh > KmhE4(DRIFT_CONFIG.minDriftSpeed))

\* A drift flag that enters Drifting on the slip angle alone.
DriftStepAnySpeed(isDrifting, slipAngle, speedKmh, weatherModifiers) ==
  IF ~isDrifting /\ Abs(slipAngle) > driftEntryAngle(weatherModifiers) THEN TRUE
  ELSE IF isDrifting /\ Abs(slipAngle) < driftExitAngle(weatherModifiers) THEN FALSE
  ELSE isDrifting

\* The drift flag after the frame.
DriftStep(isDrifting, slipAngle, speedKmh, weatherModifiers) ==
  LET absSlipAngle == Abs(slipAngle)
  IN  IF ~isDrifting /\ absSlipAngle > driftEntryAngle(weatherModifiers)
           /\ speedKmh > KmhE4(DRIFT_CONFIG.minDriftSpeed)
        THEN TRUE
      ELSE IF isDrifting /\ absSlipAngle < driftExitAngle(weatherModifiers) THEN FALSE
      ELSE isDrifting

\* ----------------------------------- Car.tsx useFrame: longitudinal force

\* A throttle force that adds the low DRS boost at any speed, DRS or not.
ThrottleForceAlwaysBoosted(absSpeed, speedKmh, drsActive, steer, dragForce) ==
  Mul4(getEngineForce(absSpeed) + DRS_CONFIG.engineBoostLow * 1000,
       Max(7000, 10000 - Abs(steer) * 5)) - dragForce

\* The engine force of a throttle frame with the DRS boost (mN).
ThrottleForce(absSpeed, speedKmh, drsActive, steer, dragForce) ==
  LET engineForce0 == getEngineForce(absSpeed)
      boostRange   == DRS_CONFIG.boostEndSpeed - DRS_CONFIG.boostStartSpeed
      boostProgress ==
        Min(10000, (speedKmh - KmhE4(DRS_CONFIG.boostStartSpeed)) \div boostRange)
      engineForce ==
        IF drsActive /\ speedKmh >= KmhE4(DRS_CONFIG.boostStartSpeed)
          THEN engineForce0 + lerp(DRS_CONFIG.engineBoostLow * 1000,
                                   DRS_CONFIG.engineBoostHigh * 1000, boostProgress)
        ELSE engineForce0
      corneringPenalty == Max(7000, 10000 - Abs(steer) * 5)
  IN  Mul4(engineForce, corneringPenalty) - dragForce

\* A longitudinal force whose handbrake branch gives way to the throttle.
LongitudinalForceThrottleFirst(k, forward, backward, brake, drsActive, steer, dragForce, BRAKE_FORCE, MAX_SPEED, MAX_REVERSE_SPEED, isOnCurb, curbModifiers) ==
  LET f0 == IF forward /\ k.currentSpeed < MAX_SPEED
              THEN ThrottleForce(k.absSpeed, k.speedKmh, drsActive, steer, dragForce)
            ELSE IF backward
              THEN IF k.currentSpeed > 300 THEN -(BRAKE_FORCE * 1000)
                   ELSE IF k.currentSpeed > -MAX_REVERSE_SPEED THEN -(getEngineForce(0) \div 2)
                   ELSE 0
            ELSE IF k.absSpeed > 500
              THEN IF k.currentSpeed < 0 THEN ENGINE_BRAKE * 1000 + dragForce
                   ELSE -(ENGINE_BRAKE * 1000) - dragForce
            ELSE 0
      f1 == IF brake /\ ~forward /\ k.absSpeed > 300
              THEN -Mul4(BRAKE_FORCE * 1000, 12000) * Sign(k.currentSpeed)
            ELSE f0
      curbDrag == Mul4(Mul4(k.absSpeed * CAR_MASS, 10000 - curbModifiers.speedMultiplier), 5000)
  IN  IF isOnCurb /\ k.absSpeed > CURB_PHYSICS.minSpeedForEffect
        THEN f1 - curbDrag * Sign(k.currentSpeed)
      ELSE f1

\* The longitudinal force of the frame (mN): throttle, brake or reverse,
\* coasting, handbrake, curb drag.
LongitudinalForce(k, forward, backward, brake, drsActive, steer, dragForce, BRAKE_FORCE, MAX_SPEED, MAX_REVERSE_SPEED, isOnCurb, curbModifiers) ==
  LET f0 == IF forward /\ k.currentSpeed < MAX_SPEED
              THEN ThrottleForce(k.absSpeed, k.speedKmh, drsActive, steer, dragForce)
            ELSE IF backward
              THEN IF k.currentSpeed > 300 THEN -(BRAKE_FORCE * 1000)
                   ELSE IF k.currentSpeed > -MAX_REVERSE_SPEED THEN -(getEngineForce(0) \div 2)
                   ELSE 0
            ELSE IF k.absSpeed > 500
              THEN IF k.currentSpeed < 0 THEN ENGINE_BRAKE * 1000 + dragForce
                   ELSE -(ENGINE_BRAKE * 1000) - dragForce
            ELSE 0
      f1 == IF brake /\ k.absSpeed > 300
              THEN -Mul4(BRAKE_FORCE * 1000, 12000) * Sign(k.currentSpeed)
            ELSE f0
      curbDrag == Mul4(Mul4(k.absSpeed * CAR_MASS, 10000 - curbModifiers.speedMultiplier), 5000)
  IN  IF isOnCurb /\ k.absSpeed > CURB_PHYSICS.minSpeedForEffect
        THEN f1 - curbDrag * Sign(k.currentSpeed)
      ELSE f1

\* ------------------------------------ Car.tsx useFrame: speed integration

\* A clamp that lets the speed pass above the forward limit.
ClampSpeedReverseOnly(speed, MAX_SPEED, MAX_REVERSE_SPEED) == Max(-MAX_REVERSE_SPEED, speed)

\* The speed after integration and the clamp to the speed limits (mm/s).
ClampSpeed(speed, MAX_SPEED, MAX_REVERSE_SPEED) ==
  Max(-MAX_REVERSE_SPEED, Min(MAX_SPEED, speed))

\* The speed after the low-speed zeroing.
ZeroLowSpeed(speed, forward, backward) ==
  IF Abs(speed) < 100 /\ ~forward /\ ~backward THEN 0 ELSE speed

\* A stuck guard that replaces the computed speed by the actual speed.
StuckGuardSnap(speed, linvel, dt) ==
  LET actualSpeed      == Hypot(linvel.x, linvel.z)
      speedDiscrepancy == Abs(speed) - actualSpeed
  IN  IF speedDiscrepancy > 10000 /\ actualSpeed < 2000 THEN actualSpeed ELSE speed

\* The speed after the stuck guard: blended toward the actual horizontal
\* speed when the computed speed has run away from it.
StuckGuard(speed, linvel, dt) ==
  LET actualSpeed      == Hypot(linvel.x, linvel.z)
      speedDiscrepancy == Abs(speed) - actualSpeed
  IN  IF speedDiscrepancy > 10000 /\ actualSpeed < 2000
        THEN lerp(speed, actualSpeed * Sign(speed), DtTimes(dt, 5))
      ELSE speed

\* newSpeed of the frame and the acceleration it came from (mm/s, mm/s^2).
IntegrateSpeed(currentSpeed, longitudinalForce, linvel, dt, forward, backward, MAX_SPEED, MAX_REVERSE_SPEED) ==
  LET longitudinalAccel == MulDiv(longitudinalForce, 1, CAR_MASS)
      integrated == currentSpeed + MulDiv(longitudinalAccel, dt, 1000)
      clamped    == ClampSpeed(integrated, MAX_SPEED, MAX_REVERSE_SPEED)
      sanitized  == sanitizeNumber(clamped, currentSpeed)
      zeroed     == ZeroLowSpeed(sanitized, forward, backward)
  IN  [ longitudinalAccel |-> longitudinalAccel,
        newSpeed          |-> StuckGuard(zeroed, linvel, dt) ]

\* ----------------------------------- Car.tsx useFrame: angular velocity

\* The target yaw rate (1/1000 rad/s): steering geometry plus the slide
\* rotation added while drifting or on the handbrake.
TargetAngVel(k, steer, effectiveGrip, isDrifting, handbrake, slipAngle) ==
  LET fromSteering == IF k.absSpeed > 300
                        THEN calculateTurnDynamics(k.currentSpeed, steer, effectiveGrip, isDrifting)
                      ELSE 0
  IN  IF isDrifting \/ handbrake THEN fromSteering + Mul4(slipAngle, 150) ELSE fromSteering

\* A cap that bounds the yaw rate on the positive side only.
ClampAngVelOneSided(safeAngVelY) == Min(MAX_ANG_VEL, safeAngVelY)

\* The cap on the yaw rate written to the chassis.
ClampAngVel(safeAngVelY) == Max(-MAX_ANG_VEL, Min(MAX_ANG_VEL, safeAngVelY))

\* The smoothed yaw rate kept by the component and the angular velocity
\* written to the chassis.
AngularVelocity(smoothedAngVel, targetAngVel, angvel, isDrifting, dt) ==
  LET angVelSmoothing == IF isDrifting THEN 25 ELSE 18
      smoothed        == lerp(smoothedAngVel, targetAngVel, Min(10000, DtTimes(dt, angVelSmoothing)))
      newAngVelY      == lerp(angvel.y, smoothed, Min(10000, DtTimes(dt, 30)))
      safeAngVelX     == sanitizeNumber(Mul4(angvel.x, 8500), 0)
      safeAngVelY     == sanitizeNumber(newAngVelY, 0)
      safeAngVelZ     == sanitizeNumber(Mul4(angvel.z, 8500), 0)
      clampedAngVelY  == ClampAngVel(safeAngVelY)
  IN  [ smoothedAngVel |-> smoothed,
        newAngVelY     |-> newAngVelY,
        written        |-> Vec(safeAngVelX, clampedAngVelY, safeAngVelZ) ]

\* ------------------------------------- Car.tsx useFrame: lateral grip

\* The share of the lateral velocity removed in the frame (E4).
LateralCorrection(isDrifting, handbrake, effectiveGrip, weatherModifiers, isOnCurb, curbModifiers) ==
  LET baseCorrection == Min(DRIFT_CONFIG.normalLateralCorrection, 8800 + Mul4(effectiveGrip, 500))
      lc0 == IF isDrifting \/ handbrake
               THEN Mul4(DRIFT_CONFIG.driftLateralCorrection,
                         weatherModifiers.driftLateralCorrectionMultiplier)
             ELSE Mul4(baseCorrection, weatherModifiers.driftLateralCorrectionMultiplier)
      lc1 == IF isOnCurb THEN Min(10000, Mul4(lc0, curbModifiers.lateralStability)) ELSE lc0
  IN  sanitizeNumber(lc1, 9000)

\* ----------------------------------- Car.tsx useFrame: final velocity

\* The velocity written to the chassis and the smoothed velocity kept by the
\* component (mm/s).
FinalVelocity(k, newSpeed, lateralCorrection, linvel, smoothedVelocity, dt) ==
  LET remaining   == Mul4(k.lateralSpeed, 10000 - lateralCorrection)
      rawX        == Mul4(newSpeed, k.forwardDir.x) + Mul4(remaining, k.rightDir.x)
      rawZ        == Mul4(newSpeed, k.forwardDir.z) + Mul4(remaining, k.rightDir.z)
      safeVelX    == sanitizeNumber(rawX, linvel.x)
      safeVelZ    == sanitizeNumber(rawZ, linvel.z)
      clampedVelX == Max(-MAX_VELOCITY, Min(MAX_VELOCITY, safeVelX))
      clampedVelZ == Max(-MAX_VELOCITY, Min(MAX_VELOCITY, safeVelZ))
      velSmoothing == Min(10000, DtTimes(dt, 30))
      outX == IF k.absSpeed < speedThreshold
                THEN lerp(smoothedVelocity.x, clampedVelX, velSmoothing) ELSE clampedVelX
      outZ == IF k.absSpeed < speedThreshold
                THEN lerp(smoothedVelocity.z, clampedVelZ, velSmoothing) ELSE clampedVelZ
  IN  [ clampedVelX      |-> clampedVelX,
        clampedVelZ      |-> clampedVelZ,
        smoothedVelocity |-> Vec(outX, smoothedVelocity.y, outZ),
        written          |-> Vec(outX, linvel.y, outZ) ]

\* ------------------------- Car.tsx useFrame: wheels, telemetry, skid marks

\* The wheel angles (1/1000 rad) advanced by the frame.
WheelRotations(wheelRotations, newSpeed, dt) ==
  LET wheelRotSpeed == MulDiv(newSpeed, 1000, wheelRadius)
  IN  [ i \in 1..4 |-> wheelRotations[i] + MulDiv(wheelRotSpeed, dt, 1000) ]

\* A telemetry whose gear is the table's at any forward speed.
TelemetryNoReverse(clampedVelX, clampedVelZ, currentSpeed, pos, rot, steer, wheelRotations) ==
  LET telemetrySpeedKmh == Kmh(Hypot(clampedVelX, clampedVelZ))
  IN  [ speed          |-> telemetrySpeedKmh,
        gear           |-> calculateGear(telemetrySpeedKmh),
        rpm            |-> 0,
        position       |-> pos,
        rotation       |-> rot,
        steerAngle     |-> steer,
        wheelRotations |-> wheelRotations ]

\* The telemetry the frame publishes to the car store.
Telemetry(clampedVelX, clampedVelZ, currentSpeed, pos, rot, steer, wheelRotations) ==
  LET telemetrySpeedKmh == Kmh(Hypot(clampedVelX, clampedVelZ))
      gear              == calculateGear(telemetrySpeedKmh)
  IN  [ speed          |-> telemetrySpeedKmh,
        gear           |-> IF currentSpeed < -500 THEN -1 ELSE gear,
        rpm            |-> 0,
        position       |-> pos,
        rotation       |-> rot,
        steerAngle     |-> steer,
        wheelRotations |-> wheelRotations ]

\* The skid intensity handed to the track temperature store (E4).
SkidIntensity(absSlipAngle, absSpeed, lateralSpeed, steer, isDrifting) ==
  LET s1 == IF absSlipAngle > 3000 /\ absSpeed > 3000
              THEN Min(10000, MulDiv(absSlipAngle - 3000, 10, 12 - 3)) ELSE 0
      lateralG          == MulDiv(Abs(lateralSpeed), 10000, GRAVITY)
      steeringIntensity == Abs(steer) * 25
      turnIntensity     == Min(10000, Mul4(steeringIntensity, absSpeed \div 3))
      s2 == IF absSpeed > 15000 /\ steeringIntensity > 3000
              THEN Max(s1, Mul4(turnIntensity, 6000)) ELSE s1
      gIntensity        == Min(10000, MulDiv(lateralG - 3000, 10, 7))
      s3 == IF lateralG > 3000 /\ absSpeed > 10000
              THEN Max(s2, Mul4(gIntensity, 8000)) ELSE s2
  IN  IF isDrifting THEN Max(s3, 9000) ELSE s3

\* updateCarPosition(x, z, delta, intensity) on the track temperature store,
\* kept as the flag it raises and the intensity of the last mark laid down.
updateCarPosition(track, intensity) ==
  IF intensity < 500 THEN track
  ELSE [ textureNeedsUpdate |-> TRUE, lastIntensity |-> intensity ]

\* The yaw (1/1000 degree) the frame extracts from the reported rotation.
YawOf(rot) ==
  Atan2Full(2 * (MulR4(rot.w, rot.y) + MulR4(rot.x, rot.z)),
            10000 - 2 * (MulR4(rot.y, rot.y) + MulR4(rot.x, rot.x)))

\* ------------------------------------------- Car.tsx useFrame: the frame

\* The refs of a freshly mounted Car component.
InitRefs ==
  [ currentSteer      |-> 0,
    wheelRotations    |-> [ i \in 1..4 |-> 0 ],
    lastCameraToggle  |-> 0,
    smoothedSpeed     |-> 0,
    lateralG          |-> 0,
    longitudinalG     |-> 0,
    isDrifting        |-> FALSE,
    smoothedVelocity  |-> Vec(0, 0, 0),
    smoothedAngVel    |-> 0,
    smoothedSlipAngle |-> 0 ]

\* Clamp of the frame's delta: Math.min(delta, 0.05), in ms.
ClampDelta(delta) == Min(delta, 50)

\* Everything a frame computes when the reported state is finite, from the
\* refs r, the values (wm, tireGrip, onCurb, cm) read from the stores and the
\* input inp (keys, delta, pos, rot, linvel, angvel).  The frame is one
\* straight run of the source; FrameCalc .. Frame7 follow it top to bottom,
\* each handing what it has computed to the next.
Frame7(r, inp, dt, co, k, aero, wt, st, slipAngle, isDrifting, frontGripCoefficient, rearGripCoefficient, effectiveGrip, longitudinalForce, sp, targetAngVel, lateralCorrection, av, fv, wheels, entryAngle, exitAngle) ==
  [ dt |-> dt, co |-> co, k |-> k, aero |-> aero, wt |-> wt, st |-> st,
    slipAngle            |-> slipAngle,
    frontGripCoefficient |-> frontGripCoefficient,
    rearGripCoefficient  |-> rearGripCoefficient,
    effectiveGrip        |-> effectiveGrip,
    driftEntryAngle      |-> entryAngle,
    driftExitAngle       |-> exitAngle,
    longitudinalForce    |-> longitudinalForce,
    longitudinalAccel    |-> sp.longitudinalAccel,
    newSpeed             |-> sp.newSpeed,
    targetAngVel         |-> targetAngVel,
    newAngVelY           |-> av.newAngVelY,
    lateralCorrection    |-> lateralCorrection,
    writtenAngvel        |-> av.written,
    writtenLinvel        |-> fv.written,
    telemetry |-> Telemetry(fv.clampedVelX, fv.clampedVelZ, k.currentSpeed,
                            inp.pos, inp.rot, st.steer, wheels),
    skidIntensity |-> SkidIntensity(Abs(slipAngle), k.absSpeed, k.lateralSpeed,
                                    st.steer, isDrifting),
    refs |->
      [ r EXCEPT !.currentSteer      = st.steer,
                 !.wheelRotations    = wheels,
                 !.smoothedSpeed     = lerp(r.smoothedSpeed, k.absSpeed, DtTimes(dt, 10)),
                 !.lateralG          =
                    lerp(r.lateralG,
                         MulDiv(MulDiv(Abs(av.newAngVelY), k.absSpeed, 1000), 1000, GRAVITY),
                         DtTimes(dt, 8)),
                 !.longitudinalG     = lerp(r.longitudinalG,
                                            MulDiv(sp.longitudinalAccel, 1000, GRAVITY),
                                            DtTimes(dt, 8)),
                 !.isDrifting        = isDrifting,
                 !.smoothedVelocity  = fv.smoothedVelocity,
                 !.smoothedAngVel    = av.smoothedAngVel,
                 !.smoothedSlipAngle = slipAngle ] ]

\* Angular velocity, final velocity, wheels.
Frame6(r, wm, inp, dt, co, k, aero, wt, st, slipAngle, isDrifting, frontGripCoefficient, rearGripCoefficient, effectiveGrip, longitudinalForce, sp, targetAngVel, lateralCorrection) ==
  Frame7(r, inp, dt, co, k, aero, wt, st, slipAngle, isDrifting, frontGripCoefficient,
         rearGripCoefficient, effectiveGrip, longitudinalForce, sp, targetAngVel,
         lateralCorrection,
         AngularVelocity(r.smoothedAngVel, targetAngVel, inp.angvel, isDrifting, dt),
         FinalVelocity(k, sp.newSpeed, lateralCorrection, inp.linvel, r.smoothedVelocity, dt),
         WheelRotations(r.wheelRotations, sp.newSpeed, dt),
         driftEntryAngle(wm), driftExitAngle(wm))

\* Speed integration, target yaw rate, lateral correction.
Frame5(r, wm, onCurb, cm, inp, dt, co, k, aero, wt, st, slipAngle, isDrifting, frontGripCoefficient, rearGripCoefficient, effectiveGrip, longitudinalForce) ==
  Frame6(r, wm, inp, dt, co, k, aero, wt, st, slipAngle, isDrifting, frontGripCoefficient,
         rearGripCoefficient, effectiveGrip, longitudinalForce,
         IntegrateSpeed(k.currentSpeed, longitudinalForce, inp.linvel, dt,
                        inp.keys.forward, inp.keys.backward, co.MAX_SPEED, co.MAX_REVERSE_SPEED),
         TargetAngVel(k, st.steer, effectiveGrip, isDrifting, inp.keys.handbrake, slipAngle),
         LateralCorrection(isDrifting, inp.keys.handbrake, effectiveGrip, wm, onCurb, cm))

\* Effective grip and longitudinal force.
Frame4(r, wm, onCurb, cm, inp, dt, co, k, aero, wt, st, slipAngle, isDrifting, frontGripCoefficient, rearGripCoefficient) ==
  Frame5(r, wm, onCurb, cm, inp, dt, co, k, aero, wt, st, slipAngle, isDrifting,
         frontGripCoefficient, rearGripCoefficient,
         EffectiveGrip(frontGripCoefficient, rearGripCoefficient, wt.latTransfer,
                       aero.downforce, wt.baseWeight),
         LongitudinalForce(k, inp.keys.forward, inp.keys.backward, inp.keys.brake,
                           aero.drsActive, st.steer, aero.dragForce, co.BRAKE_FORCE,
                           co.MAX_SPEED, co.MAX_REVERSE_SPEED, onCurb, cm))

\* Front and rear grip, drift state machine.
Frame3(r, wm, onCurb, cm, inp, dt, co, k, aero, wt, st, slipAngle) ==
  Frame4(r, wm, onCurb, cm, inp, dt, co, k, aero, wt, st, slipAngle,
         DriftStep(r.isDrifting, slipAngle, k.speedKmh, wm),
         getTireGrip(slipAngle, wt.frontLoad, co.TIRE_GRIP_COEFFICIENT),
         RearGrip(slipAngle, wt.rearLoad, co.TIRE_GRIP_COEFFICIENT,
                  inp.keys.handbrake, inp.keys.forward, st.steer, k.speedKmh))

\* Weight transfer, steering, slip angle.
Frame2(r, wm, onCurb, cm, inp, dt, co, k, aero) ==
  Frame3(r, wm, onCurb, cm, inp, dt, co, k, aero,
         WeightTransfer(aero.downforce, r.longitudinalG, r.lateralG),
         Steering(r.currentSteer, inp.keys.left, inp.keys.right, k.speedKmh, dt,
                  co.MAX_STEER_ANGLE, co.MIN_STEER_ANGLE, co.STEER_SPEED),
         SlipAngle(r.smoothedSlipAngle, k.lateralSpeed, k.absSpeed, dt))

\* Aerodynamics.
Frame1(r, wm, onCurb, cm, inp, dt, co, k) ==
  Frame2(r, wm, onCurb, cm, inp, dt, co, k,
         Aerodynamics(k.absSpeed, k.speedKmh, inp.keys.drs,
                      co.DRAG_COEFFICIENT, co.DOWNFORCE_COEFFICIENT))

\* Time step, coefficients, kinematics.
FrameCalc(r, wm, tireGrip, onCurb, cm, inp) ==
  Frame1(r, wm, onCurb, cm, inp, ClampDelta(inp.delta),
         EffectiveCoefficients(wm, tireGrip, onCurb, cm),
         Kinematics(inp.linvel, inp.rot))

\* A recovery that centres the steering as well.
RecoveredRefsSteerToo(r) ==
  [ r EXCEPT !.currentSteer      = 0,
             !.smoothedSpeed     = 0,
             !.smoothedVelocity  = Vec(0, 0, 0),
             !.smoothedAngVel    = 0,
             !.smoothedSlipAngle = 0,
             !.lateralG          = 0,
             !.longitudinalG     = 0,
             !.isDrifting        = FALSE ]

\* The refs after the recovery branch has reset them.
RecoveredRefs(r) ==
  [ r EXCEPT !.smoothedSpeed     = 0,
             !.smoothedVelocity  = Vec(0, 0, 0),
             !.smoothedAngVel    = 0,
             !.smoothedSlipAngle = 0,
             !.lateralG          = 0,
             !.longitudinalG     = 0,
             !.isDrifting        = FALSE ]

\* A vector with a non-finite component.
IsInvalid(v) == ~IsFinite(v.x) \/ ~IsFinite(v.y) \/ ~IsFinite(v.z)

\* The camera toggle with its debounce: the camera mode and the time of the
\* last toggle after a frame at time elapsed (ms).
toggleCameraMode(mode) == IF mode = "third-person" THEN "first-person" ELSE "third-person"

CameraToggles(camera, elapsed, lastCameraToggle) == camera /\ elapsed - lastCameraToggle > 300

\* ------------------------------------------------------------- inputs

\* Frames a run may take.
MaxTicks == 2

Keys(forward, backward, left, right, brake, handbrake, drs, camera) ==
  [ forward |-> forward, backward |-> backward, left |-> left, right |-> right,
    brake |-> brake, handbrake |-> handbrake, drs |-> drs, camera |-> camera ]

\* The key combinations held during a frame.
KeySets ==
  { Keys(FALSE, FALSE, FALSE, FALSE, FALSE, FALSE, FALSE, FALSE),
    Keys(TRUE,  FALSE, FALSE, FALSE, FALSE, FALSE, FALSE, FALSE),
    Keys(TRUE,  FALSE, TRUE,  FALSE, FALSE, FALSE, TRUE,  FALSE),
    Keys(FALSE, TRUE,  FALSE, FALSE, FALSE, FALSE, FALSE, FALSE),
    Keys(FALSE, FALSE, FALSE, TRUE,  TRUE,  FALSE, FALSE, FALSE),
    Keys(FALSE, FALSE, FALSE, TRUE,  FALSE, TRUE,  FALSE, FALSE),
    Keys(TRUE,  TRUE,  FALSE, FALSE, FALSE, FALSE, FALSE, FALSE),
    Keys(FALSE, FALSE, FALSE, FALSE, FALSE, FALSE, TRUE,  TRUE) }

\* Frame times (ms): a 60 Hz frame and a lag spike.
Deltas == {16, 400}

\* Orientations the chassis reports: rotations are enabled about the vertical
\* axis only, so a yaw of 0 and a yaw of 90 degrees.
Yaw0 == Quat(0, 0, 0, 10000)

Yaw90 == Quat(0, 7071, 0, 7071)

Report(pos, rot, linvel, angvel) ==
  [ pos |-> pos, rot |-> rot, linvel |-> linvel, angvel |-> angvel ]

SomePos == Vec(2000, 1000, -3000)

\* Finite states the physics engine reports (mm, mm/s, 1/1000 rad/s).
FiniteReports ==
  { Report(SomePos, Yaw0,  Vec(0, 0, 0),           Vec(0, 0, 0)),
    Report(SomePos, Yaw0,  Vec(0, 0, 400),         Vec(0, 0, 0)),
    Report(SomePos, Yaw90, Vec(10000, 0, -4000),   Vec(0, 500, 0)),
    Report(SomePos, Yaw0,  Vec(-20000, 0, 60000),  Vec(0, 12000, 0)),
    Report(SomePos, Yaw0,  Vec(0, 0, 95000),       Vec(0, 0, 0)),
    Report(SomePos, Yaw0,  Vec(0, 0, -12000),      Vec(0, 0, 0)),
    Report(SomePos, Yaw0,  Vec(0, 0, -300),        Vec(0, 0, 0)),
    Report(SomePos, Yaw0,  Vec(0, 0, -300),        Vec(0, 0, 0)),
    Report(SomePos, Yaw0,  Vec(10000, 0, 60000),   Vec(0, -800, 0)),
    Report(SomePos, Yaw90, Vec(8000, 0, -4000),    Vec(0, 0, 0)),
    Report(SomePos, Yaw0,  Vec(0, -300, 30000),    Vec(0, -9000, 0)) }

NaNVec == Vec(NonFinite, NonFinite, NonFinite)

\* Corrupted states the physics engine reports.
CorruptReports ==
  { Report(SomePos, Yaw0, Vec(NonFinite, 0, 3000), Vec(0, 0, 0)),
    Report(NaNVec,  Yaw0, NaNVec,                  NaNVec),
    Report(SomePos, Yaw0, Vec(0, 0, 20000),        Vec(0, NonFinite, 0)),
    Report(Vec(2000, NonFinite, -3000), Yaw90, Vec(5000, 0, 0), Vec(0, 0, 0)) }

Input(keys, delta, rep) ==
  [ keys |-> keys, delta |-> delta, pos |-> rep.pos, rot |-> rep.rot,
    linvel |-> rep.linvel, angvel |-> rep.angvel ]

FrameInputs == { Input(k, d, rep) : k \in KeySets, d \in Deltas, rep \in FiniteReports }

RecoveryInputs ==
  { Input(k, d, rep) : k \in { q \in KeySets : ~q.forward /\ ~q.backward /\ ~q.right },
                       d \in Deltas, rep \in CorruptReports }

\* ------------------------------------------------ stores/useLapTimeStore

\* null, for the fields that hold a time in ms or null.
Null == -1

CROSSING_COOLDOWN_MS == 2000

LapStoreInit ==
  [ isActive         |-> FALSE,
    isRecording      |-> FALSE,
    currentLapStart  |-> Null,
    currentLapTime   |-> 0,
    lastLapTime      |-> Null,
    bestLapTime      |-> Null,
    lapCount         |-> 0,
    lastCrossingTime |-> 0 ]

\* A clearing that keeps the lap count and the lap times.
ClearedTimingKeepsLaps(l) ==
  [ l EXCEPT !.isRecording = FALSE, !.currentLapStart = Null, !.currentLapTime = 0,
             !.lastCrossingTime = 0 ]

\* The timing data as setActive(false), toggleRecording and reset clear it.
ClearedTiming(l) ==
  [ l EXCEPT !.isRecording      = FALSE,
             !.currentLapStart  = Null,
             !.currentLapTime   = 0,
             !.lastLapTime      = Null,
             !.bestLapTime      = Null,
             !.lapCount         = 0,
             !.lastCrossingTime = 0 ]

\* setActive(active) on store state l.
setActive(l, active) ==
  IF ~active THEN [ ClearedTiming(l) EXCEPT !.isActive = FALSE ]
  ELSE [ l EXCEPT !.isActive = TRUE ]

\* toggleRecording() on store state l.
toggleRecording(l) ==
  IF ~l.isActive THEN l
  ELSE IF l.isRecording THEN ClearedTiming(l)
  ELSE [ l EXCEPT !.isRecording = TRUE ]

\* A crossCheckpoint that accepts every crossing of a recording session.
crossCheckpointNoCooldown(l, now) ==
  IF ~l.isActive \/ ~l.isRecording THEN l
  ELSE IF l.currentLapStart = Null
    THEN [ l EXCEPT !.currentLapStart = now, !.currentLapTime = 0, !.lastCrossingTime = now ]
  ELSE [ l EXCEPT !.lastLapTime      = now - l.currentLapStart,
                  !.bestLapTime      = IF l.bestLapTime = Null \/ now - l.currentLapStart < l.bestLapTime
                                         THEN now - l.currentLapStart ELSE l.bestLapTime,
                  !.lapCount         = l.lapCount + 1,
                  !.currentLapStart  = now,
                  !.currentLapTime   = 0,
                  !.lastCrossingTime = now ]

\* crossCheckpoint() on store state l, performance.now() returning now (ms).
crossCheckpoint(l, now) ==
  IF ~l.isActive \/ ~l.isRecording THEN l
  ELSE IF now - l.lastCrossingTime < CROSSING_COOLDOWN_MS THEN l
  ELSE IF l.currentLapStart = Null
    THEN [ l EXCEPT !.currentLapStart  = now,
                    !.currentLapTime   = 0,
                    !.lastCrossingTime = now ]
  ELSE LET lapTime == now - l.currentLapStart
           newBest == IF l.bestLapTime = Null \/ lapTime < l.bestLapTime
                        THEN lapTime ELSE l.bestLapTime
       IN  [ l EXCEPT !.lastLapTime      = lapTime,
                      !.bestLapTime      = newBest,
                      !.lapCount         = l.lapCount + 1,
                      !.currentLapStart  = now,
                      !.currentLapTime   = 0,
                      !.lastCrossingTime = now ]

\* updateCurrentTime() on store state l, performance.now() returning now.
updateCurrentTime(l, now) ==
  IF ~l.isActive \/ ~l.isRecording \/ l.currentLapStart = Null THEN l
  ELSE [ l EXCEPT !.currentLapTime = now - l.currentLapStart ]

\* reset() on the lap time store.
resetLapTime(l) == ClearedTiming(l)

\* ------------------------------------------------------ stores/usePitStore

\* selectedNewTire is a tire compound or "null"; pitLaneData is "null" or
\* the data of a generated pit lane.
PitStoreInit ==
  [ pitLaneData     |-> "null",
    isInPitLane     |-> FALSE,
    isInPitBox      |-> FALSE,
    isPitStopActive |-> FALSE,
    selectedNewTire |-> "null" ]

setPitLaneData(p, data) == [ p EXCEPT !.pitLaneData = data ]

enterPitLane(p) == [ p EXCEPT !.isInPitLane = TRUE ]

exitPitLane(p) ==
  [ p EXCEPT !.isInPitLane = FALSE, !.isInPitBox = FALSE,
             !.isPitStopActive = FALSE, !.selectedNewTire = "null" ]

enterPitBox(p) == [ p EXCEPT !.isInPitBox = TRUE ]

exitPitBox(p) ==
  [ p EXCEPT !.isInPitBox = FALSE, !.isPitStopActive = FALSE, !.selectedNewTire = "null" ]

selectTire(p, compound) == [ p EXCEPT !.selectedNewTire = compound ]

\* A startPitStop that does not ask where the car is.
startPitStopAnywhere(p) ==
  IF ~p.isPitStopActive
    THEN [ store |-> [ p EXCEPT !.isPitStopActive = TRUE ], returns |-> "true" ]
  ELSE [ store |-> p, returns |-> "false" ]

\* startPitStop() on store state p: the store it leaves and what it returns.
startPitStop(p) ==
  IF p.isInPitBox /\ ~p.isPitStopActive
    THEN [ store |-> [ p EXCEPT !.isPitStopActive = TRUE ], returns |-> "true" ]
  ELSE [ store |-> p, returns |-> "false" ]

\* completePitStop() on store state p: the store it leaves and what it returns.
completePitStop(p) ==
  IF p.isPitStopActive /\ p.selectedNewTire # "null"
    THEN [ store   |-> [ p EXCEPT !.isPitStopActive = FALSE, !.selectedNewTire = "null" ],
           returns |-> p.selectedNewTire ]
  ELSE [ store |-> p, returns |-> "null" ]

cancelPitStop(p) == [ p EXCEPT !.isPitStopActive = FALSE, !.selectedNewTire = "null" ]

clearPitLane(p) ==
  [ p EXCEPT !.pitLaneData = "null", !.isInPitLane = FALSE, !.isInPitBox = FALSE,
             !.isPitStopActive = FALSE, !.selectedNewTire = "null" ]

\* --------------------------------------------- stores/useTouchControlsStore

TouchFlags == {"forward", "backward", "left", "right", "brake", "handbrake", "drs", "camera"}

\* The store's initialState.  A flag holds the JavaScript value "true",
\* "false" or "undefined".
TouchStoreInit == [ f \in TouchFlags |-> "false" ]

\* The value of a boolean argument.
JsBool(value) == IF value THEN "true" ELSE "false"

\* zustand's set(partial): Object.assign({}, state, partial) copies every own
\* property of partial, a property whose value is undefined included.
Assign(state, partial) ==
  [ f \in TouchFlags |-> IF f \in DOMAIN partial THEN partial[f] ELSE state[f] ]

\* setForward .. setCamera other than setLeft and setRight: set({ flag: value }).
setFlag(t, flag, value) == Assign(t, [ f \in {flag} |-> JsBool(value) ])

\* setLeft(value): set({ left: value, right: value ? false : undefined }).
setLeft(t, value) ==
  Assign(t, [ left |-> JsBool(value), right |-> IF value THEN "false" ELSE "undefined" ])

\* setRight(value): set({ right: value, left: value ? false : undefined }).
setRight(t, value) ==
  Assign(t, [ right |-> JsBool(value), left |-> IF value THEN "false" ELSE "undefined" ])

\* setForwardLeft(value).
setForwardLeft(t, value) ==
  Assign(t, [ forward |-> JsBool(value), left |-> JsBool(value), right |-> "false" ])

\* setForwardRight(value).
setForwardRight(t, value) ==
  Assign(t, [ forward |-> JsBool(value), right |-> JsBool(value), left |-> "false" ])

\* resetAll().
resetAll(t) == Assign(t, TouchStoreInit)

\* ------------------------------------------- the stores at mount time

Point(x, z) == Vec(x, 0, z)

\* A checkpoint as confirmCheckpointPlacement stores it.
Checkpoint(startPoint, endPoint) ==
  [ type       |-> "checkpoint",
    position   |-> Vec((startPoint.x + endPoint.x) \div 2, 0, (startPoint.z + endPoint.z) \div 2),
    startPoint |-> startPoint,
    endPoint   |-> endPoint ]

\* The weather store when a transition from weather prev to weather cur has
\* run to its end: the frame that completes the transition, taken from the
\* store as the frames before it left it (their modifiers are overwritten).
Settled(prev, cur) ==
  updateTransition([ currentWeather     |-> cur,
                     previousWeather    |-> prev,
                     transitionProgress |-> WEATHER_TRANSITION_DURATION - 50,
                     isTransitioning    |-> TRUE,
                     currentModifiers   |-> WEATHER_CONFIG[prev] ], 50)

\* The stores as created.
FreshSession ==
  [ placedObjects |-> << >>,
    weather       |-> WeatherStoreInit,
    tire          |-> TireStoreInit,
    curb          |-> CurbStoreInit ]

\* The Car component is mounted whenever the game leaves the track editor;
\* the stores keep what earlier driving and editing left in them.
Sessions ==
  { FreshSession,
    [ placedObjects |-> << Checkpoint(Point(20000, -4000), Point(20000, 4000)) >>,
      weather       |-> Settled("hot", "rain"),
      tire          |-> updateWeather(resetWear(setTireCompound(TireStoreInit, "wet")), "rain"),
      curb          |-> enterCurb(CurbStoreInit, "left") ],
    [ placedObjects |-> << Checkpoint(Point(5000, 5000), Point(5000, 5000)) >>,
      weather       |-> cycleWeather(WeatherStoreInit),
      tire          |-> updateWeather(TireStoreInit, "dry"),
      curb          |-> CurbStoreInit ],
    [ placedObjects |-> << >>,
      weather       |-> Settled("rain", "cold"),
      tire          |-> updateWeather(TireStoreInit, "cold"),
      curb          |-> CurbStoreInit ] }

\* ------------------------------------------------------ state machine

VARIABLES
  placedObjects,  \* useCustomizationStore.placedObjects
  weather,        \* useWeatherStore
  tire,           \* useTireStore
  curb,           \* useCurbStore
  refs,           \* the refs of the Car component
  chassis,        \* what the component last set on the rigid body
  telemetry,      \* useCarStore
  cameraMode,     \* useGameStore.cameraMode
  track,          \* useTrackTemperatureStore
  carState,       \* the component's state for the spray effect
  clock,          \* state.clock.elapsedTime (ms)
  ticks,          \* frames taken
  tk,             \* the last frame: its input, what it read and what it computed
  probe,          \* a speed handed to getEngineForce and what it returned
  lap,            \* useLapTimeStore
  pit,            \* usePitStore
  touch           \* useTouchControlsStore

vars == << placedObjects, weather, tire, curb, refs, chassis, telemetry, cameraMode,
           track, carState, clock, ticks, tk, probe, lap, pit, touch >>

\* A Car component freshly mounted into the stores of session s.
Mounted(s) ==
  /\ placedObjects = s.placedObjects
  /\ weather = s.weather
  /\ tire = s.tire
  /\ curb = s.curb
  /\ chassis = [ linvel      |-> Vec(0, 0, 0),
                 angvel      |-> Vec(0, 0, 0),
                 translation |-> StartOf(s.placedObjects).startPosition,
                 rotation    |-> StartOf(s.placedObjects).startRotation ]
  /\ refs = InitRefs
  /\ telemetry = [ speed |-> 0, gear |-> 1, rpm |-> 0, position |-> Vec(0, 0, 0),
                   rotation |-> Quat(0, 0, 0, 10000), steerAngle |-> 0,
                   wheelRotations |-> [ i \in 1..4 |-> 0 ] ]
  /\ cameraMode = "third-person"
  /\ track = [ textureNeedsUpdate |-> FALSE, lastIntensity |-> 0 ]
  /\ carState = [ position |-> Vec(0, 0, 0), velocity |-> 0, rotation |-> 0 ]
  /\ clock = 0
  /\ ticks = 0
  /\ tk = [ kind |-> "none" ]
  /\ lap = LapStoreInit
  /\ pit = PitStoreInit
  /\ touch = TouchStoreInit

Init ==
  /\ \E s \in Sessions : Mounted(s)
  /\ probe = [ applied |-> FALSE, speedMs |-> 0 ]

\* What every frame does before it looks at the reported state: the weather
\* transition, the tire store's weather, the camera toggle.
FramePrelude(inp, nextTire) ==
  LET elapsed == clock + inp.delta
      toggles == CameraToggles(inp.keys.camera, elapsed, refs.lastCameraToggle)
  IN  /\ ticks < MaxTicks
      /\ ticks' = ticks + 1
      /\ clock' = elapsed
      /\ weather' = updateTransition(weather, ClampDelta(inp.delta))
      /\ nextTire = updateWeather(tire, weather.currentWeather)
      /\ cameraMode' = IF toggles THEN toggleCameraMode(cameraMode) ELSE cameraMode
      /\ UNCHANGED << placedObjects, curb, probe, lap, pit, touch >>

LastToggle(inp) ==
  IF CameraToggles(inp.keys.camera, clock + inp.delta, refs.lastCameraToggle)
    THEN clock + inp.delta ELSE refs.lastCameraToggle

\* What the frame read from the stores.
Read ==
  [ weatherModifiers   |-> weather.currentModifiers,
    currentWeather     |-> weather.currentWeather,
    tireGripMultiplier |-> tire.effectiveGripMultiplier,
    isOnCurb           |-> curb.isOnCurb,
    curbModifiers      |-> curb.currentModifiers,
    isDrifting         |-> refs.isDrifting,
    smoothedSlipAngle  |-> refs.smoothedSlipAngle,
    smoothedVelocity   |-> refs.smoothedVelocity,
    currentSteer       |-> refs.currentSteer ]

\* What a frame on a finite reported state writes, c being what it computed.
FrameWrite(inp, c, t1) ==
  /\ FramePrelude(inp, t1)
  /\ tire' = updateWear(t1, c.dt, c.k.absSpeed, c.refs.isDrifting)
  /\ refs' = [ c.refs EXCEPT !.lastCameraToggle = LastToggle(inp) ]
  /\ chassis' = [ chassis EXCEPT !.linvel = c.writtenLinvel, !.angvel = c.writtenAngvel ]
  /\ telemetry' = c.telemetry
  /\ track' = updateCarPosition(track, c.skidIntensity)
  /\ carState' = [ position |-> inp.pos, velocity |-> c.k.absSpeed,
                   rotation |-> YawOf(inp.rot) ]
  /\ tk' = [ kind |-> "frame", inp |-> inp, read |-> Read, calc |-> c ]

\* A frame on a finite reported state.
Frame(inp) ==
  /\ ~IsInvalid(inp.linvel) /\ ~IsInvalid(inp.angvel) /\ ~IsInvalid(inp.pos)
  /\ FrameWrite(inp,
                FrameCalc(refs, weather.currentModifiers, tire.effectiveGripMultiplier,
                          curb.isOnCurb, curb.currentModifiers, inp),
                updateWeather(tire, weather.currentWeather))

\* What the recovery branch writes.
RecoverWrite(inp, posIsInvalid, start, t1) ==
  /\ FramePrelude(inp, t1)
  /\ tire' = t1
  /\ refs' = [ RecoveredRefs(refs) EXCEPT !.lastCameraToggle = LastToggle(inp) ]
  /\ chassis' = [ linvel      |-> Vec(0, 0, 0),
                  angvel      |-> Vec(0, 0, 0),
                  translation |-> IF posIsInvalid THEN start.startPosition
                                  ELSE chassis.translation,
                  rotation    |-> IF posIsInvalid THEN Vec(0, 0, 0) ELSE chassis.rotation ]
  /\ UNCHANGED << telemetry, track, carState >>
  /\ tk' = [ kind |-> "recovery", inp |-> inp, read |-> Read ]

\* A frame on a reported state with a non-finite velocity, angular velocity
\* or position: the recovery branch.
Recover(inp) ==
  /\ IsInvalid(inp.linvel) \/ IsInvalid(inp.angvel) \/ IsInvalid(inp.pos)
  /\ RecoverWrite(inp, IsInvalid(inp.pos), StartOf(placedObjects),
                  updateWeather(tire, weather.currentWeather))

Next ==
  \/ \E inp \in FrameInputs : Frame(inp)
  \/ \E inp \in RecoveryInputs : Recover(inp)

Spec == Init /\ [][Next]_vars

\* ------------------------------------------------ getEngineForce alone

\* Speeds probed on either side of each breakpoint: this many mm/s.
ProbeSpan == 10

\* The breakpoints of getEngineForce (km/h) and the speed in mm/s just below
\* each of them.
EngineBreakpoints == {60, 150, 250}

BreakMs(b) == KmhE4(b) \div MS_TO_KMH

ProbeSpeeds ==
  UNION { (BreakMs(b) - ProbeSpan) .. (BreakMs(b) + ProbeSpan) : b \in EngineBreakpoints }

InitEngine ==
  /\ Mounted(FreshSession)
  /\ \E s \in ProbeSpeeds : probe = [ applied |-> FALSE, speedMs |-> s ]

\* getEngineForce applied to the probed speed and to the speed 1 mm/s above.
ApplyEngine ==
  /\ ~probe.applied
  /\ probe' = [ applied |-> TRUE, speedMs |-> probe.speedMs,
                force |-> getEngineForce(probe.speedMs),
                above |-> getEngineForce(probe.speedMs + 1) ]
  /\ UNCHANGED << placedObjects, weather, tire, curb, refs, chassis, telemetry,
                  cameraMode, track, carState, clock, ticks, tk, lap, pit, touch >>

NextEngine == ApplyEngine

SpecEngine == InitEngine /\ [][NextEngine]_vars

\* ---------------------------------------------------- the stores alone

\* The stores operated through their own operations, in any order.  ticks
\* counts the operations taken.
MaxStoreOps == 5

\* The times handed to updateTransition (ms): a frame and longer steps.
TransitionDeltas == {50, 700, 1500}

\* What updateWear is handed: a frame at 108 km/h, ten minutes at 108 km/h
\* taken in one step, and a step long enough to wear any tire out.
WearInputs ==
  { [ delta |-> 50,     speedMs |-> 30000, isDrifting |-> FALSE ],
    [ delta |-> 600000, speedMs |-> 30000, isDrifting |-> FALSE ],
    [ delta |-> 600000, speedMs |-> 90000, isDrifting |-> TRUE ] }

InitStores ==
  /\ Mounted(FreshSession)
  /\ probe = [ applied |-> FALSE, speedMs |-> 0 ]

\* The enterCurb and exitCurb calls of the curb contact in progress: those
\* made since the car was last off every curb (none when it is off them now).
EntersSoFar == IF tk.kind = "store" /\ curb.isOnCurb THEN tk.enters ELSE 0

ExitsSoFar == IF tk.kind = "store" /\ curb.isOnCurb THEN tk.exits ELSE 0

\* One store operation: the stores it leaves; tk keeps its name and whether
\* the car was on a curb before it.
StoreOp(op, w, t, c) ==
  /\ ticks < MaxStoreOps
  /\ ticks' = ticks + 1
  /\ weather' = w
  /\ tire' = t
  /\ curb' = c
  /\ tk' = [ kind |-> "store", op |-> op, wasOnCurb |-> curb.isOnCurb,
             enters |-> IF op = "reset" THEN 0
                        ELSE EntersSoFar + (IF op = "enterCurb" THEN 1 ELSE 0),
             exits  |-> IF op = "reset" THEN 0
                        ELSE ExitsSoFar + (IF op = "exitCurb" THEN 1 ELSE 0) ]
  /\ UNCHANGED << placedObjects, refs, chassis, telemetry, cameraMode, track, carState,
                  clock, probe, lap, pit, touch >>

SetWeather == \E wc \in WeatherCondition : StoreOp("setWeather", setWeather(weather, wc), tire, curb)

CycleWeather == StoreOp("cycleWeather", cycleWeather(weather), tire, curb)

UpdateTransition == \E d \in TransitionDeltas : StoreOp("updateTransition", updateTransition(weather, d), tire, curb)

SetTireCompound == \E tc \in TireCompound : StoreOp("setTireCompound", weather, setTireCompound(tire, tc), curb)

UpdateWear ==
  \E i \in WearInputs :
    StoreOp("updateWear", weather, updateWear(tire, i.delta, i.speedMs, i.isDrifting), curb)

ResetWear == StoreOp("resetWear", weather, resetWear(tire), curb)

UpdateWeather == \E wc \in WeatherCondition : StoreOp("updateWeather", weather, updateWeather(tire, wc), curb)

EnterCurb == \E side \in {"left", "right"} : StoreOp("enterCurb", weather, tire, enterCurb(curb, side))

ExitCurb == StoreOp("exitCurb", weather, tire, exitCurb(curb))

ResetCurb == StoreOp("reset", weather, tire, reset(curb))

NextStores ==
  \/ SetWeather
  \/ CycleWeather
  \/ UpdateTransition
  \/ SetTireCompound
  \/ UpdateWear
  \/ ResetWear
  \/ UpdateWeather
  \/ EnterCurb
  \/ ExitCurb
  \/ ResetCurb

SpecStores == InitStores /\ [][NextStores]_vars

\* --------------------------------------- the target yaw rate alone

\* Forward speeds (mm/s): reverse, rest, below the 0.3 m/s threshold, and
\* 36, 144 and 324 km/h.
TurnSpeeds == {-5000, 0, 200, 10000, 40000, 90000}

\* Steer angles (1/1000 rad) up to the largest maximum steer angle.
TurnSteers == {-BASE_MAX_STEER_ANGLE, -BASE_MIN_STEER_ANGLE, -3, 0, 40, 200, BASE_MAX_STEER_ANGLE}

\* Effective grip (E4).
TurnGrips == {3000, 10000, 17000}

\* Slip angles (1/1000 degree).
TurnSlipAngles == {-40000, -9000, 0, 12000, 30000}

\* The inputs of the target yaw rate: the steer angle is one the steering
\* step can leave at that speed.
TurnInputs ==
  { i \in [ speedMs : TurnSpeeds, steer : TurnSteers, grip : TurnGrips,
            isDrifting : BOOLEAN, handbrake : BOOLEAN, slipAngle : TurnSlipAngles ] :
      Abs(i.steer) <= getMaxSteerAngle(Abs(i.speedMs) * 36, BASE_MAX_STEER_ANGLE, BASE_MIN_STEER_ANGLE) }

InitTurn ==
  /\ Mounted(FreshSession)
  /\ \E i \in TurnInputs : probe = [ applied |-> FALSE, inp |-> i ]

\* The frame's target yaw rate computed for the probed inputs.
ApplyTurn ==
  /\ ~probe.applied
  /\ probe' = [ applied |-> TRUE, inp |-> probe.inp,
                fromSteering |-> calculateTurnDynamics(probe.inp.speedMs, probe.inp.steer,
                                                       probe.inp.grip, probe.inp.isDrifting),
                targetAngVel |-> TargetAngVel([ absSpeed |-> Abs(probe.inp.speedMs),
                                                currentSpeed |-> probe.inp.speedMs ],
                                              probe.inp.steer, probe.inp.grip,
                                              probe.inp.isDrifting, probe.inp.handbrake,
                                              probe.inp.slipAngle) ]
  /\ UNCHANGED << placedObjects, weather, tire, curb, refs, chassis, telemetry,
                  cameraMode, track, carState, clock, ticks, tk, lap, pit, touch >>

NextTurn == ApplyTurn

SpecTurn == InitTurn /\ [][NextTurn]_vars

\* ------------------------------------- the longitudinal force alone

\* The inputs of the frame's longitudinal force and speed integration: the
\* forward speed (mm/s; reverse, rest, either side of the 0.3 m/s and 5 m/s
\* thresholds, up to a speed above every maximum speed), the four keys, the
\* steer angle, the weather whose modifiers are in effect, the curb contact
\* and the frame time (ms).
ForceInputs ==
  [ currentSpeed : {-12000, -400, 0, 200, 400, 4000, 30000, 60000, 90000},
    forward : BOOLEAN, backward : BOOLEAN, brake : BOOLEAN, drs : BOOLEAN,
    steer : {0, 300}, weather : {"dry", "rain"}, isOnCurb : BOOLEAN, dt : {16, 50} ]

InitForce ==
  /\ Mounted(FreshSession)
  /\ \E i \in ForceInputs : probe = [ applied |-> FALSE, inp |-> i ]

\* newSpeed of the frame for the probed inputs and the frame's longitudinal
\* force, the car moving along its heading at the probed speed.
ProbeNewSpeed(i, co, longitudinalForce) ==
  IntegrateSpeed(i.currentSpeed, longitudinalForce, Vec(0, 0, i.currentSpeed), i.dt,
                 i.forward, i.backward, co.MAX_SPEED, co.MAX_REVERSE_SPEED).newSpeed

\* What the frame computes for the probed inputs, from the coefficients to
\* the integrated speed.
ProbeForce(i, k, co, aero, cm) ==
  [ k |-> k, co |-> co, aero |-> aero,
    throttle |-> ThrottleForce(k.absSpeed, k.speedKmh, aero.drsActive, i.steer, aero.dragForce),
    longitudinalForce |->
      LongitudinalForce(k, i.forward, i.backward, i.brake, aero.drsActive, i.steer,
                        aero.dragForce, co.BRAKE_FORCE, co.MAX_SPEED, co.MAX_REVERSE_SPEED,
                        i.isOnCurb, cm),
    newSpeed |->
      ProbeNewSpeed(i, co,
                    LongitudinalForce(k, i.forward, i.backward, i.brake, aero.drsActive, i.steer,
                                      aero.dragForce, co.BRAKE_FORCE, co.MAX_SPEED,
                                      co.MAX_REVERSE_SPEED, i.isOnCurb, cm)) ]

ProbeAero(i, k, co, cm) ==
  ProbeForce(i, k, co,
             Aerodynamics(k.absSpeed, k.speedKmh, i.drs, co.DRAG_COEFFICIENT,
                          co.DOWNFORCE_COEFFICIENT), cm)

ProbeCoefficients(i, cm) ==
  ProbeAero(i, [ currentSpeed |-> i.currentSpeed, absSpeed |-> Abs(i.currentSpeed),
                 speedKmh |-> Kmh(Abs(i.currentSpeed)) ],
            EffectiveCoefficients(WEATHER_CONFIG[i.weather], 10000, i.isOnCurb, cm), cm)

ApplyForce ==
  /\ ~probe.applied
  /\ probe' = [ applied |-> TRUE, inp |-> probe.inp,
                calc |-> ProbeCoefficients(probe.inp,
                                           IF probe.inp.isOnCurb THEN ON_CURB_MODIFIERS
                                           ELSE DEFAULT_MODIFIERS) ]
  /\ UNCHANGED << placedObjects, weather, tire, curb, refs, chassis, telemetry,
                  cameraMode, track, carState, clock, ticks, tk, lap, pit, touch >>

NextForce == ApplyForce

SpecForce == InitForce /\ [][NextForce]_vars

\* ------------------------------------------------ the steering alone

\* The inputs of a frame's steering step: the keys, the forward speed (mm/s:
\* rest, 144 and 288 km/h), the clamped frame time (ms) and the weather
\* whose modifiers are in effect.
SteerInputs ==
  [ left : BOOLEAN, right : BOOLEAN, speedMs : {0, 40000, 80000},
    dt : {16, 50}, weather : {"dry", "cold"} ]

\* currentSteerRef starts at 0.
InitSteer ==
  /\ Mounted(FreshSession)
  /\ probe = [ applied |-> FALSE, steer |-> InitRefs.currentSteer ]

\* One frame's steering step on the steer angle the last frame left.
SteerTick(i, co) ==
  /\ probe' = [ applied |-> TRUE, left |-> i.left, right |-> i.right, speedMs |-> i.speedMs,
                MAX_STEER_ANGLE |-> co.MAX_STEER_ANGLE,
                MIN_STEER_ANGLE |-> co.MIN_STEER_ANGLE,
                maxSteer |-> getMaxSteerAngle(Kmh(i.speedMs), co.MAX_STEER_ANGLE,
                                              co.MIN_STEER_ANGLE),
                steer |-> Steering(probe.steer, i.left, i.right, Kmh(i.speedMs), i.dt,
                                   co.MAX_STEER_ANGLE, co.MIN_STEER_ANGLE,
                                   co.STEER_SPEED).steer ]
  /\ UNCHANGED << placedObjects, weather, tire, curb, refs, chassis, telemetry,
                  cameraMode, track, carState, clock, ticks, tk, lap, pit, touch >>

NextSteer ==
  \E i \in SteerInputs :
    SteerTick(i, EffectiveCoefficients(WEATHER_CONFIG[i.weather], 10000, FALSE, DEFAULT_MODIFIERS))

SpecSteer == InitSteer /\ [][NextSteer]_vars

\* The render loop calls the frame callback again and again, so a frame
\* that can change the state is eventually taken.
SpecSteerFair == SpecSteer /\ WF_vars(NextSteer)

\* ------------------------------------------------ the stuck guard alone

\* The inputs of the stuck guard: the computed speed (mm/s), the reported
\* velocity, whose horizontal magnitude lies on either side of 2 m/s, and the
\* clamped frame time (ms).
StuckInputs ==
  [ speed  : {-40000, -12500, -10500, -3000, 0, 9000, 10001, 12000, 30000, 86000},
    linvel : { Vec(0, 0, 0), Vec(300, 0, 400), Vec(0, -700, 1999), Vec(2000, 0, 0),
               Vec(0, 0, -1500), Vec(3000, 0, 4000) },
    dt     : {1, 16, 50} ]

InitStuck ==
  /\ Mounted(FreshSession)
  /\ \E i \in StuckInputs : probe = [ applied |-> FALSE, inp |-> i ]

\* The stuck guard applied to the probed speed.
ApplyStuck ==
  /\ ~probe.applied
  /\ probe' = [ applied |-> TRUE, inp |-> probe.inp,
                actualSpeed |-> Hypot(probe.inp.linvel.x, probe.inp.linvel.z),
                newSpeed |-> StuckGuard(probe.inp.speed, probe.inp.linvel, probe.inp.dt) ]
  /\ UNCHANGED << placedObjects, weather, tire, curb, refs, chassis, telemetry,
                  cameraMode, track, carState, clock, ticks, tk, lap, pit, touch >>

NextStuck == ApplyStuck

SpecStuck == InitStuck /\ [][NextStuck]_vars

\* ------------------------------------------- the weather store alone

\* The weather store operated without end: setWeather and cycleWeather from
\* the HUD, updateTransition from every frame of the Car (delta in ms).  tk
\* keeps the operation, the time handed to updateTransition since the last
\* change of weather and the modifiers at that change.
StartModifiers == IF tk.kind = "weather" THEN tk.start ELSE weather.currentModifiers

SinceChange == IF tk.kind = "weather" THEN tk.elapsed ELSE WEATHER_TRANSITION_DURATION

WeatherOp(op, delta, w) ==
  /\ weather' = w
  /\ tk' = [ kind    |-> "weather", op |-> op,
             changed |-> w.currentWeather # weather.currentWeather,
             start   |-> IF w.currentWeather # weather.currentWeather
                           THEN weather.currentModifiers ELSE StartModifiers,
             elapsed |-> IF w.currentWeather # weather.currentWeather THEN 0
                         ELSE Min(WEATHER_TRANSITION_DURATION, SinceChange + delta) ]
  /\ UNCHANGED << placedObjects, tire, curb, refs, chassis, telemetry, cameraMode, track,
                  carState, clock, ticks, probe, lap, pit, touch >>

WeatherSet == \E wc \in WeatherCondition : WeatherOp("setWeather", 0, setWeather(weather, wc))

WeatherCycle == WeatherOp("cycleWeather", 0, cycleWeather(weather))

WeatherUpdate == \E d \in {1000, 1500} : WeatherOp("updateTransition", d, updateTransition(weather, d))

NextWeather ==
  \/ WeatherSet
  \/ WeatherCycle
  \/ WeatherUpdate

SpecWeather == InitStores /\ [][NextWeather]_vars

\* The Car's frame callback calls updateTransition on every rendered frame.
SpecWeatherFair == SpecWeather /\ WF_vars(WeatherUpdate)

\* ------------------------------------------------ the lap time store alone

\* performance.now() is the variable clock (ms).  Time passes in these steps
\* and the run ends at MaxNow.
MaxNow == 9000

LapSteps == {1000, 1500}

\* The accepted crossings of the recording session in progress (their times)
\* and the lap times completed in it, as the operations so far produced them.
CrossingsSoFar == IF tk.kind = "lap" THEN tk.crossings ELSE << >>

LapsSoFar == IF tk.kind = "lap" THEN tk.laps ELSE << >>

InitLap ==
  /\ Mounted(FreshSession)
  /\ probe = [ applied |-> FALSE, speedMs |-> 0 ]

\* One call of a lap store operation leaving the store as l.  A crossing is
\* accepted when the call changed the store.
LapOp(op, l) ==
  /\ lap' = l
  /\ tk' = [ kind      |-> "lap",
             op        |-> op,
             now       |-> clock,
             before    |-> lap,
             earlier   |-> CrossingsSoFar,
             accepted  |-> op = "crossCheckpoint" /\ l # lap,
             crossings |-> IF ~l.isRecording THEN << >>
                           ELSE IF op = "crossCheckpoint" /\ l # lap
                             THEN Append(CrossingsSoFar, clock)
                           ELSE CrossingsSoFar,
             laps      |-> IF ~l.isRecording THEN << >>
                           ELSE IF op = "crossCheckpoint" /\ l # lap /\ CrossingsSoFar # << >>
                             THEN Append(LapsSoFar, clock - CrossingsSoFar[Len(CrossingsSoFar)])
                           ELSE LapsSoFar ]
  /\ UNCHANGED << placedObjects, weather, tire, curb, refs, chassis, telemetry, cameraMode,
                  track, carState, clock, ticks, probe, pit, touch >>

LapSetActive == \E active \in BOOLEAN : LapOp(IF active THEN "setActive(true)" ELSE "setActive(false)", setActive(lap, active))

LapToggleRecording == LapOp("toggleRecording", toggleRecording(lap))

LapCrossCheckpoint == LapOp("crossCheckpoint", crossCheckpoint(lap, clock))

LapUpdateCurrentTime == LapOp("updateCurrentTime", updateCurrentTime(lap, clock))

LapReset == LapOp("reset", resetLapTime(lap))

LapTimePasses ==
  /\ \E d \in LapSteps : clock + d <= MaxNow /\ clock' = clock + d
  /\ UNCHANGED << placedObjects, weather, tire, curb, refs, chassis, telemetry, cameraMode,
                  track, carState, ticks, tk, probe, lap, pit, touch >>

NextLap ==
  \/ LapSetActive
  \/ LapToggleRecording
  \/ LapCrossCheckpoint
  \/ LapUpdateCurrentTime
  \/ LapReset
  \/ LapTimePasses

SpecLap == InitLap /\ [][NextLap]_vars

\* ------------------------------------------------------ the pit store alone

\* The pit lanes handed to setPitLaneData: none, or a generated one.
PitLanes == {"null", "lane"}

InitPit ==
  /\ Mounted(FreshSession)
  /\ probe = [ applied |-> FALSE, speedMs |-> 0 ]

\* One call of a pit store operation: r.store is the store it leaves and
\* r.returns what the call returned ("void" where it returns nothing).
PitOp(op, r) ==
  /\ pit' = r.store
  /\ tk' = [ kind |-> "pit", op |-> op, before |-> pit, returns |-> r.returns ]
  /\ UNCHANGED << placedObjects, weather, tire, curb, refs, chassis, telemetry, cameraMode,
                  track, carState, clock, ticks, probe, lap, touch >>

Void(p) == [ store |-> p, returns |-> "void" ]

PitSetPitLaneData == \E data \in PitLanes : PitOp("setPitLaneData", Void(setPitLaneData(pit, data)))

PitEnterPitLane == PitOp("enterPitLane", Void(enterPitLane(pit)))

PitExitPitLane == PitOp("exitPitLane", Void(exitPitLane(pit)))

PitEnterPitBox == PitOp("enterPitBox", Void(enterPitBox(pit)))

PitExitPitBox == PitOp("exitPitBox", Void(exitPitBox(pit)))

PitSelectTire == \E compound \in TireCompound : PitOp("selectTire", Void(selectTire(pit, compound)))

PitStartPitStop == PitOp("startPitStop", startPitStop(pit))

PitCompletePitStop == PitOp("completePitStop", completePitStop(pit))

PitCancelPitStop == PitOp("cancelPitStop", Void(cancelPitStop(pit)))

PitClearPitLane == PitOp("clearPitLane", Void(clearPitLane(pit)))

NextPit ==
  \/ PitSetPitLaneData
  \/ PitEnterPitLane
  \/ PitExitPitLane
  \/ PitEnterPitBox
  \/ PitExitPitBox
  \/ PitSelectTire
  \/ PitStartPitStop
  \/ PitCompletePitStop
  \/ PitCancelPitStop
  \/ PitClearPitLane

SpecPit == InitPit /\ [][NextPit]_vars

\* ------------------------------------------- the touch controls store alone

\* The flags that have a setter of their own writing that flag only.
PlainFlags == TouchFlags \ {"left", "right"}

InitTouch ==
  /\ Mounted(FreshSession)
  /\ probe = [ applied |-> FALSE, speedMs |-> 0 ]

\* One call of a touch store action with argument value, leaving the store as t.
TouchOp(op, value, t) ==
  /\ touch' = t
  /\ tk' = [ kind |-> "touch", op |-> op, value |-> value, before |-> touch ]
  /\ UNCHANGED << placedObjects, weather, tire, curb, refs, chassis, telemetry, cameraMode,
                  track, carState, clock, ticks, probe, lap, pit >>

TouchSetFlag == \E flag \in PlainFlags, value \in BOOLEAN : TouchOp(flag, value, setFlag(touch, flag, value))

TouchSetLeft == \E value \in BOOLEAN : TouchOp("setLeft", value, setLeft(touch, value))

TouchSetRight == \E value \in BOOLEAN : TouchOp("setRight", value, setRight(touch, value))

TouchSetForwardLeft == \E value \in BOOLEAN : TouchOp("setForwardLeft", value, setForwardLeft(touch, value))

TouchSetForwardRight == \E value \in BOOLEAN : TouchOp("setForwardRight", value, setForwardRight(touch, value))

TouchResetAll == TouchOp("resetAll", FALSE, resetAll(touch))

NextTouch ==
  \/ TouchSetFlag
  \/ TouchSetLeft
  \/ TouchSetRight
  \/ TouchSetForwardLeft
  \/ TouchSetForwardRight
  \/ TouchResetAll

SpecTouch == InitTouch /\ [][NextTouch]_vars

\* ------------------------------------------------------------- claims

\* The speed limits of the last frame, from the weather multiplier it read.
MaxSpeedOf(t) == Mul4(BASE_MAX_SPEED, t.read.weatherModifiers.maxSpeedMultiplier)

MaxReverseSpeedOf(t) == Mul4(BASE_MAX_REVERSE_SPEED, t.read.weatherModifiers.maxSpeedMultiplier)

\* C1: after a frame on a finite reported state, newSpeed is finite and lies
\* in [-BASE_MAX_REVERSE_SPEED * maxSpeedMultiplier, BASE_MAX_SPEED *
\* maxSpeedMultiplier], the sanitising, the low-speed zeroing and the stuck
\* guard included; where the frame writes the velocity directly (at or above
\* 5 m/s), the written velocity's component along the car's forward direction
\* is that speed.
C1_SpeedWithinLimits ==
  tk.kind = "frame" =>
    /\ IsFinite(tk.calc.newSpeed)
    /\ tk.calc.newSpeed <= MaxSpeedOf(tk)
    /\ tk.calc.newSpeed >= -MaxReverseSpeedOf(tk)
    /\ tk.calc.k.absSpeed >= speedThreshold =>
         /\ Dot(chassis.linvel, tk.calc.k.forwardDir) = tk.calc.newSpeed
         /\ Dot(chassis.linvel, tk.calc.k.forwardDir) <= MaxSpeedOf(tk)
         /\ Dot(chassis.linvel, tk.calc.k.forwardDir) >= -MaxReverseSpeedOf(tk)

\* C1 witness: a frame whose reported forward speed is above the limit and
\* whose newSpeed is the limit itself, written along the forward direction.
C1_Witness ==
  /\ tk.kind = "frame"
  /\ tk.calc.k.currentSpeed > MaxSpeedOf(tk)
  /\ tk.calc.newSpeed = MaxSpeedOf(tk)
  /\ Dot(chassis.linvel, tk.calc.k.forwardDir) = MaxSpeedOf(tk)

\* C2: the yaw rate every frame writes to the chassis is finite and within
\* [-MAX_ANG_VEL, MAX_ANG_VEL], in either drift state, whatever the slip angle
\* and the reported angular velocity.
C2_YawRateWithinCap ==
  /\ IsFinite(chassis.angvel.y)
  /\ chassis.angvel.y <= MAX_ANG_VEL
  /\ chassis.angvel.y >= -MAX_ANG_VEL
  /\ tk.kind = "frame" => chassis.angvel = tk.calc.writtenAngvel

\* C2 witness: a frame whose smoothed yaw rate is below -MAX_ANG_VEL and which
\* writes -MAX_ANG_VEL.
C2_Witness ==
  /\ tk.kind = "frame"
  /\ tk.calc.newAngVelY < -MAX_ANG_VEL
  /\ chassis.angvel.y = -MAX_ANG_VEL

\* The drift thresholds a step uses: those of the weather modifiers the
\* component holds when the frame starts (1/1000 degree).
EntryAngleNow ==
  Mul4(DRIFT_CONFIG.driftEntrySlipAngle * 1000,
       weather.currentModifiers.driftEntrySlipAngleMultiplier)

ExitAngleNow ==
  Mul4(DRIFT_CONFIG.driftExitSlipAngle * 1000,
       weather.currentModifiers.driftEntrySlipAngleMultiplier)

\* C3: drift hysteresis.  The exit threshold is below the entry threshold; a
\* step takes the drift flag from Drifting to Gripped only with the absolute
\* smoothed slip angle below the exit threshold (the recovery branch, which
\* resets the slip angle to 0, included); and no step changes the flag while
\* the slip angle it leaves is inside [exitAngle, entryAngle], at any speed.
C3_DriftHysteresis ==
  [][ /\ ExitAngleNow < EntryAngleNow
      /\ (refs.isDrifting /\ ~refs'.isDrifting) =>
           Abs(refs'.smoothedSlipAngle) < ExitAngleNow
      /\ (Abs(refs'.smoothedSlipAngle) >= ExitAngleNow
            /\ Abs(refs'.smoothedSlipAngle) <= EntryAngleNow) =>
           refs'.isDrifting = refs.isDrifting ]_vars

\* C3 witness: a frame that started Drifting, left the slip angle inside the
\* band and is still Drifting.
C3_Witness ==
  /\ tk.kind = "frame"
  /\ tk.read.isDrifting
  /\ Abs(refs.smoothedSlipAngle) >= tk.calc.driftExitAngle
  /\ Abs(refs.smoothedSlipAngle) <= tk.calc.driftEntryAngle
  /\ refs.isDrifting

\* C10: the drift flag is Gripped initially; a frame that is not the recovery
\* branch takes Gripped to Drifting exactly when |slipAngle| > entry threshold
\* and speed > minDriftSpeed, Drifting to Gripped exactly when |slipAngle| <
\* exit threshold, and leaves the flag alone otherwise; so the flag never
\* becomes Drifting at a speed at or below minDriftSpeed.
C10_DriftTransitions ==
  /\ ~refs.isDrifting
  /\ [][ tk'.kind = "frame" =>
           /\ (~refs.isDrifting) =>
                (refs'.isDrifting <=>
                   (/\ Abs(refs'.smoothedSlipAngle) > EntryAngleNow
                    /\ tk'.calc.k.speedKmh > KmhE4(DRIFT_CONFIG.minDriftSpeed)))
           /\ refs.isDrifting =>
                (~refs'.isDrifting <=> Abs(refs'.smoothedSlipAngle) < ExitAngleNow)
           /\ (~refs.isDrifting /\ refs'.isDrifting) =>
                Kmh(Abs(Dot(tk'.inp.linvel, ForwardOf(tk'.inp.rot))))
                  > KmhE4(DRIFT_CONFIG.minDriftSpeed) ]_vars

\* C10 witness: a frame that started Gripped above its entry threshold and
\* above minDriftSpeed and is Drifting.
C10_Witness ==
  /\ tk.kind = "frame"
  /\ ~tk.read.isDrifting
  /\ Abs(tk.calc.slipAngle) > tk.calc.driftEntryAngle
  /\ tk.calc.k.speedKmh > KmhE4(DRIFT_CONFIG.minDriftSpeed)
  /\ refs.isDrifting

\* C4: a frame whose reported linear velocity has a non-finite component
\* writes the velocity (0,0,0) and the angular velocity (0,0,0); when the
\* reported position is non-finite too, the chassis is moved to the start
\* position, which is finite and is the one derived from the first checkpoint
\* (5 units behind it along its normal, 1 unit up) or (0,1,0) when no
\* checkpoint with a line of positive length is placed.
C4_RecoveryWrites ==
  (tk.kind = "recovery" /\ IsInvalid(tk.inp.linvel)) =>
    /\ chassis.linvel = Vec(0, 0, 0)
    /\ chassis.angvel = Vec(0, 0, 0)
    /\ IsInvalid(tk.inp.pos) =>
         /\ ~IsInvalid(chassis.translation)
         /\ chassis.translation = StartOf(placedObjects).startPosition
         /\ chassis.translation.y = 1000
         /\ placedObjects = << >> => chassis.translation = Vec(0, 1000, 0)
         /\ (\A i \in 1..Len(placedObjects) :
               placedObjects[i].type = "checkpoint"
                 => placedObjects[i].startPoint = placedObjects[i].endPoint)
              => chassis.translation = Vec(0, 1000, 0)

\* C4 witness: a recovery frame with a non-finite velocity and position, on a
\* track whose checkpoint has a line, that has moved the chassis from
\* somewhere else to the start position behind that checkpoint.
C4_Witness ==
  /\ tk.kind = "recovery"
  /\ IsInvalid(tk.inp.linvel)
  /\ IsInvalid(tk.inp.pos)
  /\ placedObjects # << >>
  /\ chassis.translation = StartOf(placedObjects).startPosition
  /\ chassis.translation # Vec(0, 1000, 0)
  /\ chassis.linvel = Vec(0, 0, 0)

\* C5: getEngineForce is continuous at 60, 150 and 250 km/h.  At each
\* breakpoint the band below and the band above give the same force
\* (ENGINE_FORCE_LOW, ENGINE_FORCE_MID, ENGINE_FORCE_HIGH), and the forces of
\* two probed speeds 1 mm/s apart around a breakpoint differ by less than
\* 1 N (the bands fall by at most 0.42 N per mm/s), never by a jump.
C5_EngineForceContinuous ==
  /\ EngineBandLow(KmhE4(60)) = ENGINE_FORCE_LOW * 1000
  /\ EngineBandMid(KmhE4(60)) = ENGINE_FORCE_LOW * 1000
  /\ EngineBandMid(KmhE4(150)) = ENGINE_FORCE_MID * 1000
  /\ EngineBandHigh(KmhE4(150)) = ENGINE_FORCE_MID * 1000
  /\ EngineBandHigh(KmhE4(250)) = ENGINE_FORCE_HIGH * 1000
  /\ EngineBandTop(KmhE4(250)) = ENGINE_FORCE_HIGH * 1000
  /\ probe.applied => Abs(probe.force - probe.above) < 1000

\* C5 witness: a probe whose speed is in the band below a breakpoint while
\* the speed 1 mm/s above it is in the band above.
C5_Witness ==
  /\ probe.applied
  /\ \E b \in EngineBreakpoints :
       /\ Kmh(probe.speedMs) < KmhE4(b)
       /\ Kmh(probe.speedMs + 1) >= KmhE4(b)
       /\ probe.above = getEngineForce(probe.speedMs + 1)

\* The collaborators a frame has read are all 1.0: every weather modifier,
\* the tires' effective grip, and the car is not on a curb.
AllOnes(t) ==
  /\ \A key \in ModifierKeys : t.read.weatherModifiers[key] = 10000
  /\ t.read.tireGripMultiplier = 10000
  /\ ~t.read.isOnCurb

\* A frame that starts at rest with zero steer angle and only forward held,
\* of 16 ms, with all modifiers 1.0.
FromRest(t) ==
  /\ t.kind = "frame"
  /\ t.inp.linvel = Vec(0, 0, 0)
  /\ t.inp.angvel = Vec(0, 0, 0)
  /\ t.read.currentSteer = 0
  /\ t.inp.keys = Keys(TRUE, FALSE, FALSE, FALSE, FALSE, FALSE, FALSE, FALSE)
  /\ t.inp.delta = 16
  /\ AllOnes(t)

\* getEngineForce(0) / CAR_MASS * dt for dt = 16 ms, in mm/s.
RestBound == MulDiv(MulDiv(getEngineForce(0), 1, CAR_MASS), 16, 1000)

\* C6: a 16 ms frame from rest with zero steer, all modifiers 1.0 and only
\* forward held gives a newSpeed that is > 0 and at most
\* getEngineForce(0) / CAR_MASS * dt; the speed of the velocity it writes is
\* within the same bound, and is > 0 when the smoothed velocity the component
\* holds starts at rest as well.
C6_OneTickFromRest ==
  FromRest(tk) =>
    /\ tk.calc.newSpeed > 0
    /\ tk.calc.newSpeed <= RestBound
    /\ tk.read.smoothedVelocity = Vec(0, 0, 0) =>
         /\ Hypot(chassis.linvel.x, chassis.linvel.z) > 0
         /\ Hypot(chassis.linvel.x, chassis.linvel.z) <= RestBound

\* C6 witness: such a frame, with the smoothed velocity at rest, that has
\* written a forward velocity.
C6_Witness ==
  /\ FromRest(tk)
  /\ tk.read.smoothedVelocity = Vec(0, 0, 0)
  /\ tk.calc.newSpeed = RestBound
  /\ chassis.linvel.z > 0

\* The aerodynamics of the frame's state with the DRS key held and released.
AeroWith(t, drs) ==
  Aerodynamics(t.calc.k.absSpeed, t.calc.k.speedKmh, drs,
               t.calc.co.DRAG_COEFFICIENT, t.calc.co.DOWNFORCE_COEFFICIENT)

\* C7: at or above 200 km/h and above zero speed, the drag force a frame
\* uses with the DRS key held is strictly less than the drag force of the
\* same state with the key released, and so is the downforce; below 200 km/h
\* the key changes neither.  The frame uses the forces of the key it read.
C7_DrsReducesDrag ==
  tk.kind = "frame" =>
    /\ tk.calc.aero = AeroWith(tk, tk.inp.keys.drs)
    /\ (tk.calc.k.speedKmh >= KmhE4(200) /\ tk.calc.k.absSpeed > 0) =>
         /\ AeroWith(tk, TRUE).dragForce < AeroWith(tk, FALSE).dragForce
         /\ AeroWith(tk, TRUE).downforce < AeroWith(tk, FALSE).downforce
    /\ tk.calc.k.speedKmh < KmhE4(200) =>
         /\ AeroWith(tk, TRUE).dragForce = AeroWith(tk, FALSE).dragForce
         /\ AeroWith(tk, TRUE).downforce = AeroWith(tk, FALSE).downforce

\* C7 witness: a frame at or above 200 km/h with the DRS key held, whose
\* drag force is below the drag force of its speed and drag coefficient.
C7_Witness ==
  /\ tk.kind = "frame"
  /\ tk.inp.keys.drs
  /\ tk.calc.k.speedKmh >= KmhE4(200)
  /\ tk.calc.aero.drsActive
  /\ tk.calc.aero.dragForce < getDragForce(tk.calc.k.absSpeed, tk.calc.co.DRAG_COEFFICIENT)

\* The rear grip coefficient of the frame's state with the handbrake held
\* and released.
RearGripWith(t, handbrake) ==
  RearGrip(t.calc.slipAngle, t.calc.wt.rearLoad, t.calc.co.TIRE_GRIP_COEFFICIENT,
           handbrake, t.inp.keys.forward, t.calc.st.steer, t.calc.k.speedKmh)

\* C8: above 30 km/h the rear grip coefficient with the handbrake held is
\* strictly less than with the handbrake released in the identical state; at
\* or below 30 km/h the handbrake leaves it unchanged.  The frame uses the
\* coefficient of the key it read.
C8_HandbrakeRearGrip ==
  tk.kind = "frame" =>
    /\ tk.calc.rearGripCoefficient = RearGripWith(tk, tk.inp.keys.handbrake)
    /\ tk.calc.k.speedKmh > KmhE4(30) => RearGripWith(tk, TRUE) < RearGripWith(tk, FALSE)
    /\ tk.calc.k.speedKmh <= KmhE4(30) => RearGripWith(tk, TRUE) = RearGripWith(tk, FALSE)

\* C8 witness: a frame above 30 km/h with the handbrake held, whose rear
\* grip coefficient is below that of the released handbrake.
C8_Witness ==
  /\ tk.kind = "frame"
  /\ tk.inp.keys.handbrake
  /\ tk.calc.k.speedKmh > KmhE4(30)
  /\ tk.calc.rearGripCoefficient < RearGripWith(tk, FALSE)

\* C9: with all-1.0 collaborators (dry weather fully transitioned, tire
\* effective grip 1.0, not on a curb) every effective coefficient of the
\* frame equals its base constant: tire grip, drag, downforce, brake force,
\* max speed, max reverse speed, max and min steer angle, steer speed, and
\* the drift entry and exit thresholds.
C9_AllOnesGiveBase ==
  (tk.kind = "frame" /\ AllOnes(tk)) =>
    /\ tk.calc.co.TIRE_GRIP_COEFFICIENT = BASE_TIRE_GRIP_COEFFICIENT
    /\ tk.calc.co.DRAG_COEFFICIENT = BASE_DRAG_COEFFICIENT
    /\ tk.calc.co.DOWNFORCE_COEFFICIENT = BASE_DOWNFORCE_COEFFICIENT
    /\ tk.calc.co.BRAKE_FORCE = BASE_BRAKE_FORCE
    /\ tk.calc.co.MAX_SPEED = BASE_MAX_SPEED
    /\ tk.calc.co.MAX_REVERSE_SPEED = BASE_MAX_REVERSE_SPEED
    /\ tk.calc.co.MAX_STEER_ANGLE = BASE_MAX_STEER_ANGLE
    /\ tk.calc.co.MIN_STEER_ANGLE = BASE_MIN_STEER_ANGLE
    /\ tk.calc.co.STEER_SPEED = BASE_STEER_SPEED
    /\ tk.calc.driftEntryAngle = DRIFT_CONFIG.driftEntrySlipAngle * 1000
    /\ tk.calc.driftExitAngle = DRIFT_CONFIG.driftExitSlipAngle * 1000

\* C9 witness: a frame in settled dry weather with fresh tires, off the
\* curbs, whose tire grip coefficient is the base constant.
C9_Witness ==
  /\ tk.kind = "frame"
  /\ AllOnes(tk)
  /\ weather.currentWeather = "dry"
  /\ ~weather.isTransitioning
  /\ tk.calc.co.TIRE_GRIP_COEFFICIENT = BASE_TIRE_GRIP_COEFFICIENT

\* C11: in every state of the weather store, the states in the middle of a
\* transition and those left by setWeather and cycleWeather included, the
\* drift exit threshold a frame would use is strictly less than the entry
\* threshold it would use.
C11_ExitBelowEntry ==
  driftExitAngle(weather.currentModifiers) < driftEntryAngle(weather.currentModifiers)

\* C11 witness: the middle of a transition, the drift multiplier strictly
\* between those of the two weathers.
C11_Witness ==
  /\ weather.isTransitioning
  /\ weather.transitionProgress > 0
  /\ \A wc \in WeatherCondition :
       weather.currentModifiers.driftEntrySlipAngleMultiplier
         # WEATHER_CONFIG[wc].driftEntrySlipAngleMultiplier
  /\ driftExitAngle(weather.currentModifiers) < driftEntryAngle(weather.currentModifiers)

\* C12: every multiplier is > 0 in every state of the stores: the ten weather
\* multipliers of currentModifiers, the tire store's effectiveGripMultiplier
\* and the four curb multipliers.
C12_MultipliersPositive ==
  /\ \A key \in ModifierKeys : weather.currentModifiers[key] > 0
  /\ tire.effectiveGripMultiplier > 0
  /\ \A key \in DOMAIN curb.currentModifiers : curb.currentModifiers[key] > 0

\* C12 witness: a worn-out tire in the wrong weather, its grip recalculated
\* from the full wear, while the weather is in the middle of a transition.
C12_Witness ==
  /\ weather.isTransitioning
  /\ weather.transitionProgress > 0
  /\ tire.wear = WearFull
  /\ tire.currentWeather \notin TIRE_CONFIG[tire.currentCompound].optimalWeather
  /\ tire.effectiveGripMultiplier = calculateEffectiveGrip(tire)
  /\ tire.effectiveGripMultiplier < 10000

\* C13: whenever the car is not on a curb, the curb store's modifiers are 1.0
\* in every field, after any sequence of enterCurb, exitCurb and reset.
C13_OffCurbIsNeutral ==
  ~curb.isOnCurb =>
    /\ curb.currentModifiers.speedMultiplier = 10000
    /\ curb.currentModifiers.gripMultiplier = 10000
    /\ curb.currentModifiers.lateralStability = 10000
    /\ curb.currentModifiers.dragMultiplier = 10000

\* C13 witness: exitCurb has taken the car off its last curb.
C13_Witness ==
  /\ tk.kind = "store"
  /\ tk.op = "exitCurb"
  /\ tk.wasOnCurb
  /\ ~curb.isOnCurb
  /\ curb.currentModifiers = DEFAULT_MODIFIERS

\* What a recovery step does to the rigid body and to the smoothed refs, and
\* what it keeps: velocity and angular velocity zeroed, every smoothed
\* quantity reset to zero, the position reset when it is invalid; steer angle,
\* wheel rotations, telemetry, tire wear and track temperature kept.
RecoveryResets ==
  /\ chassis'.linvel = Vec(0, 0, 0)
  /\ chassis'.angvel = Vec(0, 0, 0)
  /\ refs'.smoothedSpeed = 0
  /\ refs'.smoothedVelocity = Vec(0, 0, 0)
  /\ refs'.smoothedAngVel = 0
  /\ refs'.smoothedSlipAngle = 0
  /\ refs'.lateralG = 0
  /\ refs'.longitudinalG = 0
  /\ IsInvalid(tk'.inp.pos) => chassis'.translation = StartOf(placedObjects).startPosition
  /\ ~IsInvalid(tk'.inp.pos) =>
       chassis'.translation = chassis.translation /\ chassis'.rotation = chassis.rotation
  /\ refs'.currentSteer = refs.currentSteer
  /\ refs'.wheelRotations = refs.wheelRotations
  /\ telemetry' = telemetry
  /\ tire'.wear = tire.wear
  /\ tire'.currentCompound = tire.currentCompound
  /\ track' = track
  /\ carState' = carState
  /\ curb' = curb
  /\ placedObjects' = placedObjects

\* C14 as stated: in a frame on a non-finite reported state nothing changes
\* but the velocity, the angular velocity, the smoothed quantities and, when
\* invalid, the position.
C14_NothingElseChanges ==
  [][ tk'.kind = "recovery" =>
        /\ RecoveryResets
        /\ refs'.isDrifting = refs.isDrifting
        /\ refs'.lastCameraToggle = refs.lastCameraToggle
        /\ cameraMode' = cameraMode
        /\ weather' = weather
        /\ tire' = tire ]_vars

\* C14, amended: in a frame on a non-finite reported state the rest of the
\* frame is skipped.  The velocity and the angular velocity are zeroed, every
\* smoothed quantity is reset to zero, the drift flag is cleared and the
\* position is reset when it is invalid; steer angle, wheel rotations,
\* telemetry, tire wear and track temperature keep their values.  What the
\* frame does before it inspects the reported state still happens: the
\* weather transition advances by dt, the tire store takes the current
\* weather and recalculates its grip, and the camera key toggles the camera.
C14_RecoverySkipsTheRest ==
  [][ tk'.kind = "recovery" =>
        /\ RecoveryResets
        /\ ~refs'.isDrifting
        /\ weather' = updateTransition(weather, ClampDelta(tk'.inp.delta))
        /\ tire' = updateWeather(tire, weather.currentWeather)
        /\ cameraMode' =
             IF tk'.inp.keys.camera /\ clock' - refs.lastCameraToggle > 300
               THEN toggleCameraMode(cameraMode) ELSE cameraMode
        /\ refs'.lastCameraToggle =
             IF tk'.inp.keys.camera /\ clock' - refs.lastCameraToggle > 300
               THEN clock' ELSE refs.lastCameraToggle ]_vars

\* C14 witness: a recovery after a frame that had steered, turned the wheels
\* and worn the tires: all of that is still there, the smoothed speed is 0.
C14_Witness ==
  /\ tk.kind = "recovery"
  /\ refs.currentSteer # 0
  /\ refs.wheelRotations[1] # 0
  /\ telemetry.speed > 0
  /\ tire.wear > 0
  /\ refs.smoothedSpeed = 0
  /\ chassis.linvel = Vec(0, 0, 0)


\* C15: when the reported position is non-finite, the stability guard
\* teleports the car to the spawn transform: the position written is the
\* spawn position and the orientation written is the spawn orientation, the
\* startRotation the car was mounted with.
C15_RecoveryToSpawnTransform ==
  (tk.kind = "recovery" /\ IsInvalid(tk.inp.pos)) =>
     /\ chassis.translation = StartOf(placedObjects).startPosition
     /\ chassis.rotation = StartOf(placedObjects).startRotation


\* The cap of the steering geometry's yaw rate in the drift state given.
TurnCap(isDrifting) ==
  IF isDrifting THEN DRIFT_CONFIG.driftMaxAngularVelocity
  ELSE DRIFT_CONFIG.normalMaxAngularVelocity

\* C16 as stated: the target yaw rate handed to the smoothing step never
\* exceeds normalMaxAngularVelocity while Gripped nor driftMaxAngularVelocity
\* while Drifting, whatever the steer angle, speed, grip, slip angle and
\* handbrake input.
C16_TargetWithinCap ==
  probe.applied => Abs(probe.targetAngVel) <= TurnCap(probe.inp.isDrifting)

\* C16, amended: the yaw rate calculateTurnDynamics returns is capped at
\* normalMaxAngularVelocity while Gripped and at driftMaxAngularVelocity while
\* Drifting, and it is the target handed to the smoothing step when the car
\* is neither drifting nor on the handbrake; while drifting or with the
\* handbrake held the target is that yaw rate plus 0.015 rad/s per degree of
\* slip angle, so it exceeds the cap by no more than 0.015 * |slip angle|.
C16_TargetWithinCapPlusSlide ==
  probe.applied =>
    /\ Abs(probe.fromSteering) <= TurnCap(probe.inp.isDrifting)
    /\ (~probe.inp.isDrifting /\ ~probe.inp.handbrake) =>
          probe.targetAngVel = probe.fromSteering
    /\ (probe.inp.isDrifting \/ probe.inp.handbrake) =>
          /\ probe.targetAngVel = probe.fromSteering + Mul4(probe.inp.slipAngle, 150)
          /\ Abs(probe.targetAngVel) <=
               TurnCap(probe.inp.isDrifting) + Mul4(Abs(probe.inp.slipAngle), 150)

\* C16 witness: a gripped car with the handbrake held and a slip angle of
\* 12 degrees, whose geometric yaw rate is cut to the normal cap of 1.2 rad/s
\* and whose target is that cap plus the slide rotation of 0.18 rad/s.
C16_Witness ==
  /\ probe.applied
  /\ ~probe.inp.isDrifting
  /\ probe.inp.handbrake
  /\ probe.inp.slipAngle = 12000
  /\ probe.fromSteering = DRIFT_CONFIG.normalMaxAngularVelocity
  /\ probe.targetAngVel = DRIFT_CONFIG.normalMaxAngularVelocity + 180


\* The curb drag of the probed frame (mN), taken off the force in the
\* direction of travel on a curb above 5 m/s.
ProbeCurbDrag ==
  IF probe.inp.isOnCurb /\ Abs(probe.inp.currentSpeed) > 5000
    THEN Mul4(Mul4(Abs(probe.inp.currentSpeed) * CAR_MASS,
                   10000 - CURB_PHYSICS.speedMultiplier), 5000)
         * Sign(probe.inp.currentSpeed)
  ELSE 0

\* The full brake force of the probed frame (mN): BASE_BRAKE_FORCE scaled by
\* the weather's brake-efficiency modifier.
ProbeBrakeForce ==
  Mul4(BASE_BRAKE_FORCE, WEATHER_CONFIG[probe.inp.weather].brakeEfficiencyMultiplier) * 1000

\* C17 as stated: whenever the car moves forward faster than 0.3 m/s and
\* backward or brake is held, the longitudinal force is the full brake force
\* scaled by the brake-efficiency modifier (times 1.2 for brake) opposing the
\* motion, whatever the other inputs, forward included.
C17_BrakingAlwaysWins ==
  (probe.applied /\ probe.inp.currentSpeed > 300
     /\ (probe.inp.backward \/ probe.inp.brake)) =>
    probe.calc.longitudinalForce =
      IF probe.inp.brake THEN -Mul4(ProbeBrakeForce, 12000) ELSE -ProbeBrakeForce

\* C17, amended: whenever the car moves forward faster than 0.3 m/s and brake
\* is held, or backward is held while forward is released or the speed has
\* reached the maximum speed, the longitudinal force is the full brake force
\* scaled by the brake-efficiency modifier (times 1.2 for brake) opposing the
\* motion, less the curb drag on a curb above 5 m/s, never the engine's
\* driving force.  With forward and backward held together below the maximum
\* speed and brake released the throttle wins: the force is the engine's
\* driving force minus the drag (less the curb drag).
C17_BrakingUnlessThrottle ==
  (probe.applied /\ probe.inp.currentSpeed > 300) =>
    /\ probe.inp.brake =>
         probe.calc.longitudinalForce = -Mul4(ProbeBrakeForce, 12000) - ProbeCurbDrag
    /\ (~probe.inp.brake /\ probe.inp.backward
          /\ (~probe.inp.forward \/ probe.inp.currentSpeed >= probe.calc.co.MAX_SPEED)) =>
         probe.calc.longitudinalForce = -ProbeBrakeForce - ProbeCurbDrag
    /\ (~probe.inp.brake /\ probe.inp.backward /\ probe.inp.forward
          /\ probe.inp.currentSpeed < probe.calc.co.MAX_SPEED) =>
         probe.calc.longitudinalForce = probe.calc.throttle - ProbeCurbDrag

\* C17 witness: forward and brake held together at 108 km/h in the rain, off
\* the curb: the force is 1.2 times the rain's brake force against the motion.
C17_Witness ==
  /\ probe.applied
  /\ probe.inp.currentSpeed = 30000
  /\ probe.inp.forward /\ probe.inp.brake /\ ~probe.inp.isOnCurb
  /\ probe.inp.weather = "rain"
  /\ probe.calc.longitudinalForce = -Mul4(ProbeBrakeForce, 12000)
  /\ probe.calc.longitudinalForce < -(BASE_BRAKE_FORCE \div 2) * 1000


\* The frame just taken had neither left nor right held.
SteerReleased == probe.applied /\ ~probe.left /\ ~probe.right

\* C18: after every frame's steering step the steer angle lies within the
\* speed-dependent maximum, |currentSteer| <= getMaxSteerAngle(speed,
\* MAX_STEER_ANGLE, MIN_STEER_ANGLE), which itself lies between the
\* modifier-scaled minimum and maximum steer angle; in a frame with neither
\* left nor right held the magnitude of the steer angle does not grow and its
\* sign does not flip; and once the keys stay released the steer angle
\* reaches exactly 0 after finitely many frames.
C18_SteerWithinMaxAndCenters ==
  /\ [](probe.applied =>
          /\ Abs(probe.steer) <= probe.maxSteer
          /\ probe.MIN_STEER_ANGLE <= probe.maxSteer
          /\ probe.maxSteer <= probe.MAX_STEER_ANGLE)
  /\ [][ (~probe'.left /\ ~probe'.right) =>
           /\ Abs(probe'.steer) <= Abs(probe.steer)
           /\ probe'.steer * probe.steer >= 0 ]_vars
  /\ (<>[]SteerReleased => <>(probe.steer = 0))

\* C18 witness: the keys released at 144 km/h on a steer angle left by
\* steering at rest: the angle has come down to the maximum for that speed
\* and is not yet centred.
C18_Witness ==
  /\ SteerReleased
  /\ probe.speedMs = 40000
  /\ probe.steer = probe.maxSteer
  /\ probe.steer > 0
  /\ probe.maxSteer < probe.MAX_STEER_ANGLE \div 2


\* The gears of the car store's gearbox.
Gears == {-1} \cup (1 .. 7)

\* The speeds (km/h) from which gears 2 to 7 are shown.
GearSteps == << 45, 85, 125, 170, 220, 275 >>

\* The gear of the fixed speed-to-gear table for a displayed speed (E4 km/h).
GearOfTable(speedKmh) ==
  1 + Cardinality({ i \in 1 .. Len(GearSteps) : speedKmh >= KmhE4(GearSteps[i]) })

\* C19 as stated: the telemetry gear is -1 whenever the forward speed is
\* negative and otherwise the table's gear for the displayed speed; it is one
\* of -1, 1..7; and of two frames the one with the higher forward speed never
\* shows the lower gear.
C19_GearByForwardSpeed ==
  /\ [](tk.kind = "frame" =>
          /\ telemetry.gear = IF tk.calc.k.currentSpeed < 0 THEN -1
                              ELSE GearOfTable(telemetry.speed)
          /\ telemetry.gear \in Gears)
  /\ [][ (tk.kind = "frame" /\ tk'.kind = "frame"
            /\ tk.calc.k.currentSpeed <= tk'.calc.k.currentSpeed) =>
           telemetry.gear <= telemetry'.gear ]_vars

\* C19, amended: the telemetry gear is -1 whenever the car reverses faster
\* than 0.5 m/s (its forward speed is below -0.5 m/s) and otherwise the
\* table's gear for the displayed speed (1 below 45 km/h, 2 below 85, 3 below
\* 125, 4 below 170, 5 below 220, 6 below 275, 7 from 275 km/h); it is one of
\* -1, 1..7; and of two frames not showing reverse the one with the higher
\* displayed speed never shows the lower gear.
C19_GearByDisplayedSpeed ==
  /\ [](tk.kind = "frame" =>
          /\ telemetry.gear = IF tk.calc.k.currentSpeed < -500 THEN -1
                              ELSE GearOfTable(telemetry.speed)
          /\ telemetry.gear \in Gears)
  /\ [][ (tk.kind = "frame" /\ tk'.kind = "frame"
            /\ tk.calc.k.currentSpeed >= -500 /\ tk'.calc.k.currentSpeed >= -500
            /\ telemetry.speed <= telemetry'.speed) =>
           telemetry.gear <= telemetry'.gear ]_vars

\* C19 witness: a second frame whose car reverses at 0.3 m/s and which shows
\* first gear.
C19_Witness ==
  /\ tk.kind = "frame"
  /\ tk.calc.k.currentSpeed < 0
  /\ tk.calc.k.currentSpeed >= -500
  /\ telemetry.gear = 1
  /\ ticks = 2


\* C20: whenever the computed speed exceeds the actual reported horizontal
\* speed by more than 10 m/s in magnitude while the actual speed is below
\* 2 m/s, the speed the stuck guard leaves keeps the sign of the computed one,
\* is strictly smaller in magnitude than the computed one and not smaller
\* than the actual speed.
C20_StuckGuardBlends ==
  (probe.applied /\ Abs(probe.inp.speed) - probe.actualSpeed > 10000
     /\ probe.actualSpeed < 2000) =>
    /\ Sign(probe.newSpeed) = Sign(probe.inp.speed)
    /\ Abs(probe.newSpeed) < Abs(probe.inp.speed)
    /\ Abs(probe.newSpeed) >= probe.actualSpeed

\* C20 witness: a computed speed of -12.5 m/s against a car reported at
\* 0.5 m/s: the guard leaves a reverse speed between the two.
C20_Witness ==
  /\ probe.applied
  /\ probe.inp.speed = -12500
  /\ probe.actualSpeed = 500
  /\ probe.newSpeed < -500
  /\ probe.newSpeed > -12500


\* C21: after any sequence of enterCurb, exitCurb and reset, contactCount is
\* never negative, isOnCurb holds exactly when contactCount > 0 and exactly
\* when curbSide is not null, and through overlapping curbs the car stays
\* on-curb, with the on-curb modifiers, exactly until the exitCurb calls of
\* the contact have caught up with its enterCurb calls.
C21_CurbContactCounting ==
  /\ curb.contactCount >= 0
  /\ curb.isOnCurb <=> curb.contactCount > 0
  /\ curb.isOnCurb <=> curb.curbSide # "null"
  /\ tk.kind = "store" =>
       /\ curb.isOnCurb <=> tk.enters > tk.exits
       /\ curb.isOnCurb => /\ curb.contactCount = tk.enters - tk.exits
                           /\ curb.currentModifiers = ON_CURB_MODIFIERS

\* C21 witness: two overlapping curbs entered and one of them left: the car
\* is still on a curb, with one contact.
C21_Witness ==
  /\ tk.kind = "store"
  /\ tk.op = "exitCurb"
  /\ tk.enters = 2
  /\ tk.exits = 1
  /\ curb.isOnCurb
  /\ curb.contactCount = 1
  /\ curb.currentModifiers = ON_CURB_MODIFIERS


\* The weather store has settled on its current weather.
WeatherSettled ==
  /\ ~weather.isTransitioning
  /\ weather.transitionProgress = WEATHER_TRANSITION_DURATION
  /\ \A k \in ModifierKeys :
       weather.currentModifiers[k] = WEATHER_CONFIG[weather.currentWeather][k]

\* C22: once the weather has been changed and is not changed again, the
\* repeated updateTransition calls complete the transition: transitionProgress
\* reaches 1 and isTransitioning turns false exactly when 3000 ms have been
\* handed to updateTransition, and from then on every multiplier of
\* currentModifiers is that of WEATHER_CONFIG for the new weather;
\* isTransitioning is true exactly while transitionProgress < 1.
C22_TransitionConverges ==
  /\ [](weather.isTransitioning <=> weather.transitionProgress < WEATHER_TRANSITION_DURATION)
  /\ [](~weather.isTransitioning => WeatherSettled)
  /\ [](tk.kind = "weather" =>
          (weather.isTransitioning <=> tk.elapsed < WEATHER_TRANSITION_DURATION))
  /\ [][ (weather.isTransitioning /\ tk'.op = "updateTransition") =>
           weather'.transitionProgress > weather.transitionProgress ]_vars
  /\ (<>[](tk.kind = "weather" /\ ~tk.changed) => <>[]WeatherSettled)

\* C22 witness: a change to the cold weather completed by updateTransition
\* calls: the modifiers are those of the cold weather.
C22_Witness ==
  /\ tk.kind = "weather"
  /\ tk.op = "updateTransition"
  /\ tk.elapsed = WEATHER_TRANSITION_DURATION
  /\ weather.currentWeather = "cold"
  /\ weather.previousWeather = "hot"
  /\ WeatherSettled
  /\ weather.currentModifiers.frictionSlipMultiplier = 2500


\* The grip of compound, weather and wear as the tire store holds them:
\* gripMultiplier, times wrongWeatherPenalty outside the compound's optimal
\* weather, times getWearGripMultiplier(wear).
GripOfStored ==
  Mul4(IF tire.currentWeather \in TIRE_CONFIG[tire.currentCompound].optimalWeather
         THEN TIRE_CONFIG[tire.currentCompound].gripMultiplier
       ELSE Mul4(TIRE_CONFIG[tire.currentCompound].gripMultiplier,
                 TIRE_CONFIG[tire.currentCompound].wrongWeatherPenalty),
       getWearGripMultiplier(tire.wear))

\* C23: after each of setTireCompound, updateWear, resetWear and
\* updateWeather the tire store's effectiveGripMultiplier is the grip of the
\* compound, weather and wear stored after that call.
C23_GripOfStoredValues ==
  (tk.kind = "store"
     /\ tk.op \in {"setTireCompound", "updateWear", "resetWear", "updateWeather"}) =>
    tire.effectiveGripMultiplier = GripOfStored

\* C24: a crossCheckpoint call that arrives less than 2000 ms after the last
\* accepted crossing of the session leaves the lap store unchanged, and so does
\* one made while the store is not active or not recording; the accepted
\* crossings of a session are pairwise at least 2000 ms apart, and lastLapTime
\* and bestLapTime, when set, are at least 2000 ms.
C24_CheckpointDebounce ==
  tk.kind = "lap" =>
    /\ (/\ tk.op = "crossCheckpoint"
        /\ tk.earlier # << >>
        /\ tk.now - tk.earlier[Len(tk.earlier)] < 2000) => lap = tk.before
    /\ (tk.op = "crossCheckpoint" /\ (~tk.before.isActive \/ ~tk.before.isRecording)) => lap = tk.before
    /\ \A i, j \in 1..Len(tk.crossings) : i < j => tk.crossings[j] - tk.crossings[i] >= 2000
    /\ lap.lastLapTime # Null => lap.lastLapTime >= 2000
    /\ lap.bestLapTime # Null => lap.bestLapTime >= 2000

\* C24 happens: a crossing 1000 ms after an accepted one was ignored in a
\* session that already has a completed lap.
C24_Witness ==
  /\ tk.kind = "lap"
  /\ tk.op = "crossCheckpoint"
  /\ ~tk.accepted
  /\ tk.before.isRecording
  /\ Len(tk.earlier) >= 2
  /\ tk.now - tk.earlier[Len(tk.earlier)] = 1000
  /\ lap.lapCount >= 1
  /\ lap = tk.before


\* The lap times completed in the session in progress.
SessionLapTimes == { tk.laps[i] : i \in 1..Len(tk.laps) }

\* C25: in a recording session the first accepted crossing starts the first
\* lap and counts none; every later accepted crossing adds exactly 1 to
\* lapCount and records lastLapTime = crossing time - currentLapStart;
\* bestLapTime is the minimum of the lap times completed in the session;
\* lastLapTime and bestLapTime are null exactly when lapCount = 0; stopping
\* the recording or deactivating the store resets the three of them.
C25_LapLedger ==
  tk.kind = "lap" =>
    /\ (tk.accepted /\ tk.earlier = << >>) =>
         /\ tk.before.lapCount = 0
         /\ lap.lapCount = 0
         /\ lap.currentLapStart = tk.now
    /\ (tk.accepted /\ tk.earlier # << >>) =>
         /\ lap.lapCount = tk.before.lapCount + 1
         /\ lap.lastLapTime = tk.now - tk.before.currentLapStart
         /\ lap.lastLapTime = tk.laps[Len(tk.laps)]
    /\ lap.lapCount = Len(tk.laps)
    /\ tk.laps # << >> =>
         /\ lap.bestLapTime \in SessionLapTimes
         /\ \A t \in SessionLapTimes : lap.bestLapTime <= t
    /\ lap.lastLapTime = Null <=> lap.lapCount = 0
    /\ lap.bestLapTime = Null <=> lap.lapCount = 0
    /\ (\/ tk.op = "toggleRecording" /\ tk.before.isRecording
        \/ tk.op = "setActive(false)") =>
         /\ lap.lapCount = 0
         /\ lap.lastLapTime = Null
         /\ lap.bestLapTime = Null
         /\ ~lap.isRecording

\* C25 happens: a third lap was completed that is slower than the second,
\* which was faster than the first, and the second is the best lap.
C25_Witness ==
  /\ tk.kind = "lap"
  /\ tk.accepted
  /\ Len(tk.laps) = 3
  /\ tk.laps[2] < tk.laps[1]
  /\ tk.laps[2] < tk.laps[3]
  /\ lap.lapCount = 3
  /\ lap.bestLapTime = tk.laps[2]
  /\ lap.lastLapTime = tk.laps[3]


\* C26: startPitStop returns true and sets isPitStopActive (and nothing
\* else) exactly when the car is in the pit box and no pit stop is active, and
\* otherwise returns false and leaves the store unchanged; after every pit
\* store action isPitStopActive implies isInPitBox; completePitStop returns a
\* compound exactly when a pit stop is active and a tire is selected, and it
\* is the selected one.
C26_PitStopOnlyInBox ==
  /\ pit.isPitStopActive => pit.isInPitBox
  /\ tk.kind = "pit" =>
       /\ tk.op = "startPitStop" =>
            /\ tk.returns \in {"true", "false"}
            /\ tk.returns = "true" <=> (tk.before.isInPitBox /\ ~tk.before.isPitStopActive)
            /\ tk.returns = "true" => pit = [ tk.before EXCEPT !.isPitStopActive = TRUE ]
            /\ tk.returns = "false" => pit = tk.before
       /\ tk.op = "completePitStop" =>
            /\ tk.returns \in TireCompound \cup {"null"}
            /\ tk.returns # "null" <=> (tk.before.isPitStopActive /\ tk.before.selectedNewTire # "null")
            /\ tk.returns # "null" => tk.returns = tk.before.selectedNewTire

\* C26 happens: a pit stop started in the box was completed with a selected
\* tire, which completePitStop returned.
C26_Witness ==
  /\ tk.kind = "pit"
  /\ tk.op = "completePitStop"
  /\ tk.before.isPitStopActive
  /\ tk.before.isInPitBox
  /\ tk.returns = "wet"
  /\ ~pit.isPitStopActive

\* C26 happens as well where startPitStop refuses: outside the box.
C26_WitnessRefused ==
  /\ tk.kind = "pit"
  /\ tk.op = "startPitStop"
  /\ ~tk.before.isInPitBox
  /\ tk.before.isInPitLane
  /\ tk.returns = "false"

\* C27: in a tick in which brake is held the new longitudinal speed does not
\* have the opposite sign of the current forward speed: from a forward speed
\* it stays forward or becomes zero, from a reverse speed it stays reverse or
\* becomes zero.
C27_BrakingNeverReverses ==
  (probe.applied /\ probe.inp.brake) =>
    /\ probe.inp.currentSpeed > 0 => probe.calc.newSpeed >= 0
    /\ probe.inp.currentSpeed < 0 => probe.calc.newSpeed <= 0


\* v lies between a and b, the ends included.
Between(a, v, b) == (a <= v /\ v <= b) \/ (b <= v /\ v <= a)

\* C28: after every updateTransition each multiplier of currentModifiers
\* lies between the value it had when setWeather started the transition and
\* the value the target weather configures, also when that setWeather
\* interrupted a transition that had not finished.
C28_ModifiersBetweenStartAndTarget ==
  (tk.kind = "weather" /\ tk.op = "updateTransition") =>
    \A f \in ModifierKeys :
      Between(tk.start[f], weather.currentModifiers[f], WEATHER_CONFIG[weather.currentWeather][f])


\* C29: setLeft(false) leaves the touch store's right flag unchanged and
\* setRight(false) leaves its left flag unchanged; every control flag stays a
\* boolean; setLeft(true) and setRight(true) clear the opposite flag; left and
\* right are never both true.
C29_SteeringReleaseIsLocal ==
  /\ \A f \in TouchFlags : touch[f] \in {"true", "false"}
  /\ ~(touch.left = "true" /\ touch.right = "true")
  /\ tk.kind = "touch" =>
       /\ (tk.op = "setLeft" /\ ~tk.value) => (touch.left = "false" /\ touch.right = tk.before.right)
       /\ (tk.op = "setRight" /\ ~tk.value) => (touch.right = "false" /\ touch.left = tk.before.left)
       /\ (tk.op = "setLeft" /\ tk.value) => (touch.left = "true" /\ touch.right = "false")
       /\ (tk.op = "setRight" /\ tk.value) => (touch.right = "true" /\ touch.left = "false")

====
